---- MODULE Spec2Model ----
(***************************************************************************)
(* A model of idkit-rs: the encrypted bridge session (Session::new,        *)
(* connect_url, poll_for_status), the BridgeUrl validator and the proof    *)
(* verification client (verify_proof).                                     *)
(*                                                                         *)
(* Text is modelled as a sequence of tokens.  A token is either one        *)
(* character that some encoder or parser treats specially (":", "/", "?",  *)
(* "#", "&", "=", "+") or an atom: a run of characters that every encoder  *)
(* and parser of the program leaves alone (letters, digits, "-", "_", ".", *)
(* "~").  Byte strings are sequences of numbers 0..255.  AES-256-GCM is    *)
(* modelled symbolically: a ciphertext records the key, the nonce and the  *)
(* plaintext it was sealed from and whether it is still intact, and opens  *)
(* only under the same key and nonce.                                      *)
(***************************************************************************)
EXTENDS Integers, Sequences, FiniteSets, TLC

(***************************************************************************)
(* Text and byte helpers                                                   *)
(***************************************************************************)

\* An absent optional piece of text, and a present one.
NoText == [has |-> FALSE, val |-> << >>]

SomeText(t) == [has |-> TRUE, val |-> t]

RECURSIVE Concat(_)
\* The concatenation of a sequence of token sequences.
Concat(ss) == IF ss = << >> THEN << >> ELSE Head(ss) \o Concat(Tail(ss))

\* Whether token sequence `part` occurs in `whole` as a contiguous run.
Occurs(part, whole) ==
    /\ Len(part) > 0
    /\ \E i \in 1..(Len(whole) - Len(part) + 1) :
           SubSeq(whole, i, i + Len(part) - 1) = part

\* The position of the first token equal to `c` in `s`, or 0.
FirstIndex(s, c) ==
    IF \E i \in 1..Len(s) : s[i] = c
    THEN CHOOSE i \in 1..Len(s) : s[i] = c /\ \A j \in 1..(i - 1) : s[j] # c
    ELSE 0

RECURSIVE SplitOn(_, _)
\* `s` split at every token equal to `c` (the separators dropped).
SplitOn(s, c) ==
    LET i == FirstIndex(s, c)
    IN  IF i = 0 THEN << s >>
        ELSE << SubSeq(s, 1, i - 1) >> \o SplitOn(SubSeq(s, i + 1, Len(s)), c)

(***************************************************************************)
(* base64 (hashing.rs: the STANDARD engine, padded) and percent-encoding   *)
(***************************************************************************)

\* The STANDARD base64 alphabet, 0-based value v at position v + 1.
B64Alphabet ==
    << "A", "B", "C", "D", "E", "F", "G", "H", "I", "J", "K", "L", "M",
       "N", "O", "P", "Q", "R", "S", "T", "U", "V", "W", "X", "Y", "Z",
       "a", "b", "c", "d", "e", "f", "g", "h", "i", "j", "k", "l", "m",
       "n", "o", "p", "q", "r", "s", "t", "u", "v", "w", "x", "y", "z",
       "0", "1", "2", "3", "4", "5", "6", "7", "8", "9", "+", "/" >>

B64Char(v) == B64Alphabet[v + 1]

\* The value of a base64 character, or -1 when it is not in the alphabet.
B64Values ==
    [c \in {B64Alphabet[v + 1] : v \in 0..63} |->
        CHOOSE v \in 0..63 : B64Alphabet[v + 1] = c]

B64Value(c) == IF c \in DOMAIN B64Values THEN B64Values[c] ELSE -1

RECURSIVE base64_encode(_)
\* hashing.rs base64_encode: groups of three bytes become four characters,
\* a last group of one or two bytes is padded with "=".
base64_encode(bytes) ==
    IF Len(bytes) = 0 THEN << >>
    ELSE IF Len(bytes) = 1 THEN
        << B64Char(bytes[1] \div 4), B64Char((bytes[1] % 4) * 16), "=", "=" >>
    ELSE IF Len(bytes) = 2 THEN
        << B64Char(bytes[1] \div 4),
           B64Char((bytes[1] % 4) * 16 + bytes[2] \div 16),
           B64Char((bytes[2] % 16) * 4), "=" >>
    ELSE
        << B64Char(bytes[1] \div 4),
           B64Char((bytes[1] % 4) * 16 + bytes[2] \div 16),
           B64Char((bytes[2] % 16) * 4 + bytes[3] \div 64),
           B64Char(bytes[3] % 64) >>
        \o base64_encode(SubSeq(bytes, 4, Len(bytes)))

\* The bytes of one group of four base64 characters (the last group may end
\* in one or two "=").
B64Group(g) ==
    LET a == B64Value(g[1])
        b == B64Value(g[2])
        c == B64Value(g[3])
        d == B64Value(g[4])
    IN  IF g[3] = "=" THEN << a * 4 + b \div 16 >>
        ELSE IF g[4] = "=" THEN << a * 4 + b \div 16, (b % 16) * 16 + c \div 4 >>
        ELSE << a * 4 + b \div 16, (b % 16) * 16 + c \div 4, (c % 4) * 64 + d >>

\* Whether `chars` is canonical padded base64: whole groups of four alphabet
\* characters, padding only at the end of the last group, no stray bits.
B64WellFormed(chars) ==
    /\ Len(chars) % 4 = 0
    /\ \A i \in 1..Len(chars) :
           \/ B64Value(chars[i]) >= 0
           \/ /\ chars[i] = "="
              /\ i >= Len(chars) - 1
              /\ (i = Len(chars) - 1 => chars[Len(chars)] = "=")
    /\ Len(chars) > 0 =>
           LET n == Len(chars)
           IN  /\ (chars[n - 1] = "=" => B64Value(chars[n - 2]) % 16 = 0)
               /\ (chars[n] = "=" /\ chars[n - 1] # "="
                      => B64Value(chars[n - 1]) % 4 = 0)

RECURSIVE B64Bytes(_)
B64Bytes(chars) ==
    IF Len(chars) = 0 THEN << >>
    ELSE B64Group(SubSeq(chars, 1, 4)) \o B64Bytes(SubSeq(chars, 5, Len(chars)))

\* hashing.rs base64_decode: the bytes, or a DecodeError.
base64_decode(chars) ==
    IF B64WellFormed(chars)
    THEN [ok |-> TRUE, bytes |-> B64Bytes(chars)]
    ELSE [ok |-> FALSE, bytes |-> << >>]

\* urlencoding::encode of one token: everything but letters, digits, "-",
\* "_", "." and "~" becomes %XX; an atom holds only such characters.
PctEncodeToken(t) ==
    CASE t = ":" -> "%3A"
      [] t = "/" -> "%2F"
      [] t = "?" -> "%3F"
      [] t = "#" -> "%23"
      [] t = "&" -> "%26"
      [] t = "=" -> "%3D"
      [] t = "+" -> "%2B"
      [] OTHER -> t

urlencoding_encode(text) == [i \in 1..Len(text) |-> PctEncodeToken(text[i])]

\* Percent-decoding of one token of a query name or value, as
\* form_urlencoded does it: %XX becomes its character and "+" a space.
PctDecodeToken(t) ==
    CASE t = "%3A" -> ":"
      [] t = "%2F" -> "/"
      [] t = "%3F" -> "?"
      [] t = "%23" -> "#"
      [] t = "%26" -> "&"
      [] t = "%3D" -> "="
      [] t = "%2B" -> "+"
      [] t = "+" -> " "
      [] OTHER -> t

PctDecode(text) == [i \in 1..Len(text) |-> PctDecodeToken(text[i])]

(***************************************************************************)
(* URLs (the url crate's Url, after parsing)                               *)
(***************************************************************************)

NoHost == [has |-> FALSE, val |-> ""]

SomeHost(h) == [has |-> TRUE, val |-> h]

\* A parsed Url.  port is "" when the URL has no port or the scheme's
\* default one (Url::port() is None for both).
MkUrl(scheme, host, port, path, query, fragment) ==
    [scheme |-> scheme, host |-> host, port |-> port, path |-> path,
     query |-> query, fragment |-> fragment]

\* Url::as_str / Display of a URL with a host.
UrlText(u) ==
    << u.scheme, ":", "/", "/", u.host.val >>
    \o (IF u.port = "" THEN << >> ELSE << ":", u.port >>)
    \o u.path
    \o (IF u.query.has THEN << "?" >> \o u.query.val ELSE << >>)
    \o (IF u.fragment.has THEN << "#" >> \o u.fragment.val ELSE << >>)

\* Url::join with an absolute path reference: the scheme, host and port of
\* the base, the new path, no query and no fragment.
UrlJoin(base, path) ==
    [base EXCEPT !.path = path, !.query = NoText, !.fragment = NoText]

\* Url::parse of the text of an https URL with a host and a path: the
\* fragment is what follows the first "#", the query what follows the first
\* "?" before it.
UrlParts(text) ==
    LET h  == FirstIndex(text, "#")
        nf == IF h = 0 THEN text ELSE SubSeq(text, 1, h - 1)
        q  == FirstIndex(nf, "?")
    IN  [base     |-> IF q = 0 THEN nf ELSE SubSeq(nf, 1, q - 1),
         query    |-> IF q = 0 THEN NoText
                      ELSE SomeText(SubSeq(nf, q + 1, Len(nf))),
         fragment |-> IF h = 0 THEN NoText
                      ELSE SomeText(SubSeq(text, h + 1, Len(text)))]

\* One name=value piece of a query, split at its first "=" and decoded.
QueryPair(piece) ==
    LET e == FirstIndex(piece, "=")
    IN  IF e = 0 THEN [name |-> PctDecode(piece), value |-> << >>]
        ELSE [name  |-> PctDecode(SubSeq(piece, 1, e - 1)),
              value |-> PctDecode(SubSeq(piece, e + 1, Len(piece)))]

\* Url::query_pairs: the query split at "&", empty pieces skipped.
QueryPairs(parts) ==
    IF ~parts.query.has THEN << >>
    ELSE LET pieces == SelectSeq(SplitOn(parts.query.val, "&"),
                                 LAMBDA p : Len(p) > 0)
         IN  [i \in 1..Len(pieces) |-> QueryPair(pieces[i])]

(***************************************************************************)
(* session/types.rs                                                        *)
(***************************************************************************)

\* DEFAULT_BRIDGE_URL, parsed: BridgeUrl::default().
DefaultBridgeUrl ==
    MkUrl("https", SomeHost("bridge.worldcoin.org"), "", << "/" >>,
          NoText, NoText)

\* str::starts_with, on strings given character by character.
StartsWith(text, prefix) ==
    Len(text) >= Len(prefix) /\ SubSeq(text, 1, Len(prefix)) = prefix

\* An AppId::from_str that looks for "app_" anywhere in the string.
from_str_contains(app_id) ==
    IF Occurs(<< "a", "p", "p", "_" >>, app_id)
    THEN [ok |-> TRUE, id |-> app_id, err |-> << >>]
    ELSE [ok |-> FALSE, id |-> << >>, err |-> app_id]

\* impl FromStr for AppId: Ok(AppId(app_id)) or Err(AppIdError(app_id)).
from_str(app_id) ==
    IF StartsWith(app_id, << "a", "p", "p", "_" >>)
    THEN [ok |-> TRUE, id |-> app_id, err |-> << >>]
    ELSE [ok |-> FALSE, id |-> << >>, err |-> app_id]

\* AppId::is_staging.
is_staging(id) == Occurs(<< "s", "t", "a", "g", "i", "n", "g" >>, id)

\* The hosts for which every URL is accepted.
LoopbackHosts == {"localhost", "127.0.0.1"}

\* impl TryFrom<Url> for BridgeUrl.  host_str().unwrap() panics when the URL
\* has no host; then the loopback bypass, then the rules in order.
try_from(url) ==
    IF ~url.host.has THEN [kind |-> "Panic", err |-> "unwrap on None", url |-> url]
    ELSE IF url.host.val \in LoopbackHosts
    THEN [kind |-> "Ok", err |-> "", url |-> url]
    ELSE IF url.scheme # "https"
    THEN [kind |-> "Err", err |-> "NotHttps", url |-> url]
    ELSE IF url.port # ""
    THEN [kind |-> "Err", err |-> "NotDefaultPort", url |-> url]
    ELSE IF url.path # << "/" >>
    THEN [kind |-> "Err", err |-> "ContainsPath", url |-> url]
    ELSE IF url.query.has
    THEN [kind |-> "Err", err |-> "ContainsQuery", url |-> url]
    ELSE IF url.fragment.has
    THEN [kind |-> "Err", err |-> "ContainsFragment", url |-> url]
    ELSE [kind |-> "Ok", err |-> "", url |-> url]

\* A conversion that gives every credential the default level, Orb.
CredentialToLevel_orb(c) == "Orb"

\* impl From<CredentialType> for VerificationLevel.
CredentialToLevel(c) ==
    CASE c = "Orb" -> "Orb"
      [] c = "Device" -> "Device"

\* VerificationLevel::to_credential_types.
to_credential_types(level) ==
    CASE level = "Orb" -> << "Orb" >>
      [] level = "Device" -> << "Orb", "Device" >>

\* impl Display for VerificationLevel.
LevelText(level) ==
    CASE level = "Orb" -> "orb"
      [] level = "Device" -> "device"

\* CredentialType as serde reads it (rename_all = "lowercase"); "" when the
\* text names no variant.
ParseCredentialType(t) ==
    CASE t = "orb" -> "Orb"
      [] t = "device" -> "Device"
      [] OTHER -> ""

\* AppError as serde reads it (rename_all = "snake_case"); "" when the text
\* names no variant.
ParseAppError(t) ==
    CASE t = "connection_failed" -> "ConnectionFailed"
      [] t = "verification_rejected" -> "VerificationRejected"
      [] t = "max_verifications_reached" -> "MaxVerificationsReached"
      [] t = "credential_unavailable" -> "CredentialUnavailable"
      [] t = "malformed_request" -> "MalformedRequest"
      [] t = "invalid_network" -> "InvalidNetwork"
      [] t = "inclusion_proof_failed" -> "InclusionProofFailed"
      [] t = "inclusion_proof_pending" -> "InclusionProofPending"
      [] t = "unexpected_response" -> "UnexpectedResponse"
      [] t = "failed_by_host_app" -> "FailedByHostApp"
      [] t = "generic_error" -> "GenericError"
      [] OTHER -> ""

\* impl From<BridgeProof> for Proof.
ProofFrom(bp) ==
    [proof |-> bp.proof, merkle_root |-> bp.merkle_root,
     nullifier_hash |-> bp.nullifier_hash,
     verification_level |-> CredentialToLevel(bp.credential_type)]

(***************************************************************************)
(* session/mod.rs: values                                                  *)
(***************************************************************************)

\* aead::NONCE_LEN and the AES-256-GCM key length, in bytes.
NONCE_LEN == 12

KEY_LEN == 32

\* A JSON field that is not there.
Absent == "<absent>"

NoProof ==
    [proof |-> "", merkle_root |-> "", nullifier_hash |-> "",
     verification_level |-> ""]

\* enum Status.
WaitingForConnection ==
    [tag |-> "WaitingForConnection", error |-> "", proof |-> NoProof]

AwaitingConfirmation ==
    [tag |-> "AwaitingConfirmation", error |-> "", proof |-> NoProof]

Confirmed(proof) == [tag |-> "Confirmed", error |-> "", proof |-> proof]

Failed(error) == [tag |-> "Failed", error |-> error, proof |-> NoProof]

\* No status: before the first poll has returned one.
NoStatus == [tag |-> "", error |-> "", proof |-> NoProof]

\* What AES-256-GCM sealing yields: it opens only under the same key and
\* nonce, and only while no bit of it has been changed.
Sealed(key, nonce, plain) ==
    [key |-> key, nonce |-> nonce, plain |-> plain, intact |-> TRUE]

\* No ciphertext and no envelope.
NoCiphertext ==
    [key |-> << >>, nonce |-> << >>, plain |-> [json |-> FALSE], intact |-> FALSE]

NoPayload == [iv |-> << >>, payload |-> [b64 |-> FALSE, ct |-> NoCiphertext]]

\* base64_encode of a ciphertext: well-formed base64 that decodes to it.
base64_encode_sealed(ct) == [b64 |-> TRUE, ct |-> ct]

\* Session::generate_key.  ivRand and keyRand are what SystemRandom::fill
\* did for the nonce and for the key: failed, or the bytes it wrote.
generate_key(ivRand, keyRand) ==
    IF ~ivRand.ok
    THEN [ok |-> FALSE, err |-> "Encryption: Failed to generate IV",
          key_bytes |-> << >>, key |-> << >>, iv |-> << >>]
    ELSE IF ~keyRand.ok
    THEN [ok |-> FALSE, err |-> "Encryption: Failed to generate key",
          key_bytes |-> << >>, key |-> << >>, iv |-> << >>]
    ELSE IF Len(keyRand.bytes) # KEY_LEN
    THEN [ok |-> FALSE, err |-> "Encryption: AES-256-GCM is a supported algorithm",
          key_bytes |-> << >>, key |-> << >>, iv |-> << >>]
    ELSE [ok |-> TRUE, err |-> "", key_bytes |-> keyRand.bytes,
          key |-> keyRand.bytes, iv |-> ivRand.bytes]

\* An encrypt_request that encodes the key bytes where the nonce belongs.
encrypt_request_keyiv(key, nonce, payload, toVecOk, sealOk) ==
    IF ~toVecOk THEN [ok |-> FALSE, err |-> "Json", payload |-> NoPayload]
    ELSE IF ~sealOk
    THEN [ok |-> FALSE, err |-> "Encryption: Failed to encrypt bridge request",
          payload |-> NoPayload]
    ELSE [ok |-> TRUE, err |-> "",
          payload |-> [iv |-> base64_encode(key),
                       payload |-> base64_encode_sealed(Sealed(key, nonce, payload))]]

\* Session::encrypt_request.  toVecOk and sealOk are whether
\* serde_json::to_vec and seal_in_place_append_tag succeeded.
encrypt_request(key, nonce, payload, toVecOk, sealOk) ==
    IF ~toVecOk THEN [ok |-> FALSE, err |-> "Json", payload |-> NoPayload]
    ELSE IF ~sealOk
    THEN [ok |-> FALSE, err |-> "Encryption: Failed to encrypt bridge request",
          payload |-> NoPayload]
    ELSE [ok |-> TRUE, err |-> "",
          payload |-> [iv |-> base64_encode(nonce),
                       payload |-> base64_encode_sealed(Sealed(key, nonce, payload))]]

\* Uuid as serde reads it: the hyphenated text in either case; the value is
\* kept as the lowercase hyphenated text Display writes.  "" when the text
\* is no UUID.
ParseUuid(t) ==
    CASE t = "3f2504e0-4f89-11d3-9a0c-0305e82c3301"
             -> "3f2504e0-4f89-11d3-9a0c-0305e82c3301"
      [] t = "3F2504E0-4F89-11D3-9A0C-0305E82C3301"
             -> "3f2504e0-4f89-11d3-9a0c-0305e82c3301"
      [] OTHER -> ""

\* A reading of the create response that takes the nil UUID when the body
\* holds no request_id (a defaulted field).
ParseCreateResponse_default(body) ==
    IF ~body.json \/ body.request_id = Absent
    THEN "00000000-0000-0000-0000-000000000000"
    ELSE ParseUuid(body.request_id)

\* response.json::<BridgeCreateResponse>(): the request_id, or "" when the
\* body is not JSON, has no request_id or holds no UUID there.
ParseCreateResponse(body) ==
    IF ~body.json \/ body.request_id = Absent THEN ""
    ELSE ParseUuid(body.request_id)

\* serde_json::from_slice::<BridgeResponse>() of a decrypted body.  The enum
\* is untagged: the Error shape is tried first and fits when error_code is a
\* known AppError, then the BridgeProof shape.
ParseBridgeResponse(plain) ==
    IF ~plain.json
    THEN [ok |-> FALSE, variant |-> "", error_code |-> "", proof |-> NoProof]
    ELSE IF plain.error_code # Absent /\ ParseAppError(plain.error_code) # ""
    THEN [ok |-> TRUE, variant |-> "Error",
          error_code |-> ParseAppError(plain.error_code), proof |-> NoProof]
    ELSE IF /\ plain.proof # Absent
            /\ plain.merkle_root # Absent
            /\ plain.nullifier_hash # Absent
            /\ plain.credential_type # Absent
            /\ ParseCredentialType(plain.credential_type) # ""
    THEN [ok |-> TRUE, variant |-> "Success", error_code |-> "",
          proof |-> ProofFrom([proof |-> plain.proof,
                               merkle_root |-> plain.merkle_root,
                               nullifier_hash |-> plain.nullifier_hash,
                               credential_type |->
                                   ParseCredentialType(plain.credential_type)])]
    ELSE [ok |-> FALSE, variant |-> "", error_code |-> "", proof |-> NoProof]

\* Nothing parsed.
NoBridgeResponse ==
    [ok |-> FALSE, variant |-> "", error_code |-> "", proof |-> NoProof]

\* key.open_in_place: the plaintext, when the ciphertext was sealed under
\* this key and nonce and has not been changed.
open_in_place(key, nonce, ct) ==
    IF ct.key = key /\ ct.nonce = nonce /\ ct.intact
    THEN [ok |-> TRUE, plain |-> ct.plain]
    ELSE [ok |-> FALSE, plain |-> [json |-> FALSE]]

\* A decrypt_response that opens whatever the key.
decrypt_response_anykey(key, payload) ==
    LET iv == base64_decode(payload.iv)
        ct == payload.payload.ct
        parsed == ParseBridgeResponse(ct.plain)
        fail(e) == [ok |-> FALSE, err |-> e, response |-> NoBridgeResponse]
    IN  IF ~iv.ok THEN fail("Base64")
        ELSE IF Len(iv.bytes) # NONCE_LEN THEN fail("Encryption: Invalid IV")
        ELSE IF ~payload.payload.b64 THEN fail("Base64")
        ELSE IF ~parsed.ok THEN fail("Json")
        ELSE [ok |-> TRUE, err |-> "", response |-> parsed]

\* Session::decrypt_response.
decrypt_response(key, payload) ==
    LET iv == base64_decode(payload.iv)
        ct == payload.payload.ct
        opened == open_in_place(key, iv.bytes, ct)
        \* opened.plain, where the envelope opens
        parsed == ParseBridgeResponse(ct.plain)
        fail(e) == [ok |-> FALSE, err |-> e, response |-> NoBridgeResponse]
    IN  IF ~iv.ok THEN fail("Base64")
        ELSE IF Len(iv.bytes) # NONCE_LEN THEN fail("Encryption: Invalid IV")
        ELSE IF ~payload.payload.b64 THEN fail("Base64")
        ELSE IF ~opened.ok
        THEN fail("Encryption: Failed to decrypt bridge response")
        ELSE IF ~parsed.ok THEN fail("Json")
        ELSE [ok |-> TRUE, err |-> "", response |-> parsed]

(***************************************************************************)
(* hashing.rs                                                              *)
(***************************************************************************)

\* The packed ABI encoding of the signals the model uses: the UTF-8 bytes of
\* a string ("" is no bytes at all), nothing for the unit value (), and for
\* the pair (U256 1, "test") the 32 big-endian bytes of 1 and then the bytes
\* of "test".
abi_encode_packed(signal) ==
    CASE signal = "" -> << >>
      [] signal = "test" -> << 116, 101, 115, 116 >>
      [] signal = "()" -> << >>
      [] signal = "(1, test)" ->
           [i \in 1..31 |-> 0] \o << 1, 116, 101, 115, 116 >>

\* keccak256 of the byte strings the model hashes (Keccak-256 itself is the
\* tiny_keccak crate's).
keccak256(bytes) ==
    CASE bytes = << >> ->
           << 197, 210, 70, 1, 134, 247, 35, 60, 146, 126, 125, 178, 220, 199,
           3, 192, 229, 0, 182, 83, 202, 130, 39, 59, 123, 250, 216, 4, 93,
           133, 164, 112 >>
      [] bytes = << 0 >> ->
           << 188, 54, 120, 158, 122, 30, 40, 20, 54, 70, 66, 41, 130, 143,
           129, 125, 102, 18, 247, 180, 119, 214, 101, 145, 255, 150, 169,
           224, 100, 188, 201, 138 >>
      [] bytes = << 116 >> ->
           << 202, 193, 187, 113, 240, 169, 124, 138, 201, 76, 169, 84, 107,
           67, 23, 138, 154, 210, 84, 199, 183, 87, 172, 7, 67, 58, 166, 223,
           53, 205, 128, 137 >>
      [] bytes = << 0, 0 >> ->
           << 84, 168, 192, 171, 101, 60, 21, 191, 180, 139, 71, 253, 1, 27,
           162, 185, 97, 122, 240, 28, 180, 92, 171, 52, 74, 205, 87, 201, 36,
           213, 103, 152 >>
      [] bytes = << 0, 116 >> ->
           << 148, 83, 132, 17, 27, 197, 25, 175, 177, 61, 4, 231, 239, 168,
           89, 57, 120, 78, 119, 59, 15, 241, 217, 13, 223, 99, 39, 2, 50,
           119, 162, 233 >>
      [] bytes = << 116, 0 >> ->
           << 139, 165, 229, 26, 107, 141, 149, 94, 186, 225, 21, 244, 200,
           102, 94, 114, 185, 136, 80, 46, 198, 96, 156, 215, 198, 150, 128,
           160, 231, 42, 144, 223 >>
      [] bytes = << 116, 116 >> ->
           << 179, 43, 68, 115, 3, 231, 215, 5, 74, 167, 228, 71, 76, 209,
           231, 79, 151, 103, 67, 177, 94, 191, 55, 65, 156, 7, 119, 88, 210,
           236, 9, 74 >>
      [] bytes = << 0, 0, 0 >> ->
           << 153, 255, 13, 145, 37, 225, 252, 149, 49, 161, 18, 98, 225, 90,
           235, 44, 96, 80, 154, 7, 140, 76, 196, 198, 76, 239, 223, 176, 111,
           246, 134, 71 >>
      [] bytes = << 0, 0, 116 >> ->
           << 3, 46, 28, 180, 65, 114, 55, 58, 23, 59, 167, 148, 189, 67, 118,
           124, 218, 114, 20, 170, 34, 224, 188, 217, 63, 164, 168, 197, 243,
           210, 25, 219 >>
      [] bytes = << 0, 116, 0 >> ->
           << 90, 242, 148, 117, 191, 95, 5, 197, 119, 122, 55, 72, 76, 64,
           195, 149, 22, 43, 149, 27, 176, 186, 150, 135, 231, 203, 85, 156,
           61, 171, 64, 246 >>
      [] bytes = << 0, 116, 116 >> ->
           << 222, 5, 203, 209, 7, 92, 193, 211, 10, 80, 130, 70, 205, 160,
           113, 186, 209, 94, 47, 70, 114, 220, 224, 67, 19, 50, 70, 254, 63,
           191, 61, 169 >>
      [] bytes = << 116, 0, 0 >> ->
           << 21, 221, 191, 153, 245, 187, 152, 132, 14, 44, 12, 245, 77, 10,
           125, 214, 112, 250, 54, 221, 150, 142, 78, 78, 88, 177, 161, 134,
           5, 10, 107, 20 >>
      [] bytes = << 116, 0, 116 >> ->
           << 193, 59, 228, 47, 21, 183, 129, 52, 12, 187, 113, 158, 71, 150,
           241, 108, 211, 10, 164, 48, 232, 220, 206, 53, 106, 113, 140, 231,
           83, 165, 42, 33 >>
      [] bytes = << 116, 116, 0 >> ->
           << 82, 143, 95, 234, 87, 83, 242, 189, 175, 178, 155, 30, 171, 187,
           27, 222, 85, 69, 206, 223, 203, 78, 212, 26, 176, 176, 79, 37, 43,
           165, 223, 191 >>
      [] bytes = << 116, 116, 116 >> ->
           << 219, 101, 214, 190, 240, 239, 207, 14, 95, 196, 242, 239, 242,
           49, 255, 79, 137, 103, 40, 9, 39, 224, 19, 55, 137, 192, 127, 37,
           200, 180, 41, 201 >>
      [] bytes = << 0, 0, 0, 0 >> ->
           << 232, 231, 118, 38, 88, 111, 115, 185, 85, 54, 76, 123, 75, 191,
           11, 183, 247, 104, 94, 189, 64, 232, 82, 177, 100, 99, 58, 74, 203,
           211, 36, 76 >>
      [] bytes = << 0, 0, 0, 116 >> ->
           << 148, 33, 120, 134, 197, 65, 184, 44, 71, 146, 69, 130, 30, 17,
           182, 182, 72, 200, 57, 107, 105, 14, 242, 156, 151, 126, 198, 103,
           250, 103, 44, 222 >>
      [] bytes = << 0, 0, 116, 0 >> ->
           << 227, 141, 242, 236, 125, 48, 75, 142, 240, 92, 211, 92, 200,
           167, 78, 6, 18, 48, 112, 19, 130, 19, 100, 95, 34, 119, 55, 177,
           79, 167, 68, 207 >>
      [] bytes = << 0, 0, 116, 116 >> ->
           << 79, 220, 145, 196, 99, 218, 219, 69, 128, 211, 231, 111, 87,
           222, 176, 177, 91, 136, 250, 253, 100, 251, 35, 29, 60, 9, 198,
           155, 219, 69, 51, 128 >>
      [] bytes = << 0, 116, 0, 0 >> ->
           << 89, 150, 31, 79, 108, 57, 86, 65, 53, 99, 195, 213, 235, 231,
           135, 139, 72, 215, 168, 63, 144, 163, 254, 154, 96, 201, 142, 203,
           196, 239, 238, 243 >>
      [] bytes = << 0, 116, 0, 116 >> ->
           << 72, 133, 219, 71, 108, 117, 154, 169, 232, 22, 15, 20, 220, 17,
           186, 109, 243, 171, 99, 137, 228, 19, 162, 44, 146, 58, 210, 238,
           6, 197, 60, 242 >>
      [] bytes = << 0, 116, 116, 0 >> ->
           << 15, 247, 80, 242, 0, 37, 218, 48, 205, 21, 158, 41, 4, 158, 211,
           18, 166, 138, 93, 34, 181, 144, 32, 92, 219, 66, 231, 214, 142,
           168, 13, 202 >>
      [] bytes = << 0, 116, 116, 116 >> ->
           << 255, 7, 189, 128, 238, 116, 161, 62, 159, 103, 164, 181, 22,
           253, 62, 195, 147, 54, 131, 223, 229, 18, 19, 162, 101, 167, 37,
           55, 96, 136, 83, 81 >>
      [] bytes = << 116, 0, 0, 0 >> ->
           << 62, 140, 232, 221, 11, 101, 84, 74, 81, 103, 90, 217, 227, 161,
           80, 252, 101, 100, 135, 9, 113, 4, 31, 111, 11, 68, 148, 168, 35,
           83, 182, 194 >>
      [] bytes = << 116, 0, 0, 116 >> ->
           << 82, 217, 232, 192, 8, 173, 184, 160, 55, 82, 160, 147, 144, 61,
           72, 233, 238, 189, 69, 209, 237, 204, 235, 117, 6, 1, 129, 83, 164,
           150, 192, 212 >>
      [] bytes = << 116, 0, 116, 0 >> ->
           << 21, 72, 141, 189, 78, 251, 208, 10, 152, 9, 161, 207, 188, 114,
           117, 129, 14, 18, 144, 177, 116, 167, 239, 234, 124, 195, 241, 40,
           128, 10, 206, 254 >>
      [] bytes = << 116, 0, 116, 116 >> ->
           << 142, 11, 224, 98, 39, 163, 49, 16, 140, 161, 222, 233, 126, 189,
           12, 227, 139, 37, 61, 155, 185, 103, 61, 78, 127, 92, 24, 188, 61,
           119, 83, 212 >>
      [] bytes = << 116, 116, 0, 0 >> ->
           << 134, 109, 146, 36, 135, 115, 106, 120, 74, 204, 172, 142, 241,
           218, 184, 112, 44, 206, 135, 36, 138, 155, 197, 79, 11, 216, 185,
           89, 5, 184, 71, 113 >>
      [] bytes = << 116, 116, 0, 116 >> ->
           << 46, 165, 194, 120, 230, 32, 144, 165, 81, 87, 175, 3, 217, 153,
           158, 237, 140, 201, 102, 117, 102, 148, 205, 191, 173, 10, 117, 8,
           87, 210, 155, 157 >>
      [] bytes = << 116, 116, 116, 0 >> ->
           << 190, 216, 122, 182, 109, 225, 4, 70, 6, 28, 163, 94, 7, 209,
           226, 195, 170, 237, 61, 216, 6, 76, 103, 72, 30, 89, 180, 188, 168,
           71, 59, 124 >>
      [] bytes = << 116, 116, 116, 116 >> ->
           << 69, 205, 87, 64, 253, 88, 42, 246, 221, 190, 141, 149, 22, 187,
           82, 95, 244, 232, 33, 159, 211, 141, 119, 184, 42, 9, 107, 242,
           225, 239, 113, 229 >>
      [] bytes = << 0, 0, 0, 0, 0 >> ->
           << 196, 21, 137, 231, 85, 152, 4, 234, 74, 32, 128, 218, 209, 157,
           135, 106, 2, 76, 203, 5, 17, 120, 53, 68, 125, 114, 206, 8, 193,
           208, 32, 236 >>
      [] bytes = << 0, 0, 0, 0, 116 >> ->
           << 198, 68, 90, 121, 145, 68, 33, 106, 102, 87, 141, 13, 133, 181,
           49, 5, 178, 64, 37, 7, 129, 227, 224, 215, 185, 94, 36, 76, 19,
           110, 15, 139 >>
      [] bytes = << 0, 0, 0, 116, 0 >> ->
           << 39, 145, 118, 78, 167, 145, 141, 254, 145, 188, 209, 108, 166,
           153, 168, 88, 37, 58, 98, 193, 246, 88, 185, 127, 46, 115, 120,
           138, 123, 233, 254, 187 >>
      [] bytes = << 0, 0, 0, 116, 116 >> ->
           << 108, 4, 235, 94, 174, 180, 179, 3, 1, 197, 148, 49, 87, 175, 51,
           147, 172, 242, 211, 156, 236, 50, 150, 185, 198, 104, 52, 253, 121,
           17, 254, 149 >>
      [] bytes = << 0, 0, 116, 0, 0 >> ->
           << 239, 7, 116, 125, 198, 98, 36, 169, 255, 129, 238, 85, 117, 37,
           147, 161, 189, 121, 36, 72, 21, 161, 39, 132, 6, 231, 93, 143, 120,
           62, 232, 7 >>
      [] bytes = << 0, 0, 116, 0, 116 >> ->
           << 147, 92, 206, 228, 131, 188, 21, 204, 165, 17, 251, 183, 27,
           129, 232, 153, 46, 205, 252, 218, 61, 199, 125, 15, 139, 29, 218,
           127, 79, 57, 212, 222 >>
      [] bytes = << 0, 0, 116, 116, 0 >> ->
           << 213, 97, 155, 53, 184, 146, 233, 97, 26, 89, 59, 61, 98, 156,
           34, 106, 140, 71, 21, 166, 18, 25, 4, 161, 39, 120, 152, 187, 46,
           143, 46, 12 >>
      [] bytes = << 0, 0, 116, 116, 116 >> ->
           << 115, 220, 211, 173, 135, 173, 41, 131, 228, 224, 97, 173, 42,
           155, 89, 32, 9, 66, 83, 29, 230, 154, 141, 52, 37, 137, 170, 190,
           33, 248, 159, 78 >>
      [] bytes = << 0, 116, 0, 0, 0 >> ->
           << 167, 4, 185, 38, 8, 159, 79, 204, 188, 25, 115, 159, 236, 175,
           129, 38, 166, 58, 120, 52, 32, 199, 153, 75, 167, 171, 63, 8, 50,
           99, 163, 58 >>
      [] bytes = << 0, 116, 0, 0, 116 >> ->
           << 11, 127, 196, 151, 207, 24, 85, 57, 51, 55, 156, 233, 96, 28, 8,
           135, 53, 44, 201, 84, 72, 97, 188, 172, 3, 191, 251, 54, 149, 207,
           237, 92 >>
      [] bytes = << 0, 116, 0, 116, 0 >> ->
           << 213, 112, 34, 71, 169, 146, 103, 131, 150, 53, 102, 113, 4, 209,
           8, 126, 43, 120, 255, 111, 242, 4, 117, 198, 246, 25, 254, 124,
           233, 103, 237, 110 >>
      [] bytes = << 0, 116, 0, 116, 116 >> ->
           << 23, 250, 243, 69, 129, 223, 174, 211, 219, 225, 218, 24, 84,
           125, 191, 176, 41, 44, 235, 54, 253, 185, 138, 35, 193, 81, 222,
           63, 83, 250, 79, 204 >>
      [] bytes = << 0, 116, 116, 0, 0 >> ->
           << 77, 1, 198, 9, 239, 104, 191, 125, 239, 136, 222, 215, 85, 73,
           79, 176, 25, 4, 254, 15, 20, 43, 238, 200, 208, 110, 128, 207, 150,
           3, 73, 35 >>
      [] bytes = << 0, 116, 116, 0, 116 >> ->
           << 182, 123, 148, 103, 107, 89, 29, 68, 202, 143, 226, 111, 199,
           188, 177, 52, 109, 86, 46, 23, 231, 16, 132, 75, 16, 171, 19, 51,
           189, 45, 162, 218 >>
      [] bytes = << 0, 116, 116, 116, 0 >> ->
           << 36, 51, 217, 31, 233, 46, 58, 192, 173, 27, 117, 83, 251, 115,
           153, 72, 31, 149, 167, 65, 5, 138, 31, 26, 215, 205, 207, 144, 141,
           160, 60, 250 >>
      [] bytes = << 0, 116, 116, 116, 116 >> ->
           << 107, 25, 195, 42, 208, 78, 203, 21, 158, 215, 254, 7, 37, 80,
           169, 254, 224, 178, 216, 94, 125, 221, 125, 176, 77, 39, 36, 109,
           210, 22, 190, 59 >>
      [] bytes = << 116, 0, 0, 0, 0 >> ->
           << 198, 157, 1, 244, 47, 50, 114, 199, 249, 75, 163, 241, 230, 200,
           180, 180, 122, 86, 69, 139, 229, 144, 186, 238, 121, 163, 150, 71,
           229, 70, 132, 100 >>
      [] bytes = << 116, 0, 0, 0, 116 >> ->
           << 98, 228, 167, 144, 44, 1, 150, 76, 205, 53, 17, 129, 10, 8, 93,
           62, 253, 95, 221, 67, 200, 76, 246, 187, 175, 207, 208, 62, 182,
           49, 143, 70 >>
      [] bytes = << 116, 0, 0, 116, 0 >> ->
           << 159, 239, 187, 117, 20, 10, 88, 229, 157, 144, 200, 12, 202, 71,
           94, 23, 234, 134, 157, 29, 166, 218, 224, 20, 38, 143, 129, 18,
           241, 228, 9, 168 >>
      [] bytes = << 116, 0, 0, 116, 116 >> ->
           << 168, 211, 250, 117, 103, 100, 56, 237, 169, 94, 113, 46, 68, 20,
           113, 110, 78, 184, 138, 63, 139, 48, 178, 98, 173, 198, 127, 216,
           77, 5, 56, 85 >>
      [] bytes = << 116, 0, 116, 0, 0 >> ->
           << 214, 217, 144, 30, 4, 252, 16, 62, 23, 254, 173, 28, 77, 21,
           222, 18, 22, 96, 152, 38, 10, 172, 70, 29, 210, 26, 201, 126, 54,
           148, 194, 82 >>
      [] bytes = << 116, 0, 116, 0, 116 >> ->
           << 99, 58, 116, 104, 150, 203, 14, 127, 255, 113, 185, 186, 221,
           62, 84, 198, 88, 74, 236, 129, 26, 207, 235, 78, 165, 62, 154, 98,
           149, 171, 154, 103 >>
      [] bytes = << 116, 0, 116, 116, 0 >> ->
           << 129, 152, 4, 86, 8, 85, 146, 235, 233, 114, 117, 184, 184, 244,
           82, 65, 183, 114, 212, 32, 40, 58, 137, 227, 229, 40, 3, 141, 95,
           138, 198, 41 >>
      [] bytes = << 116, 0, 116, 116, 116 >> ->
           << 128, 91, 45, 250, 14, 185, 41, 4, 39, 152, 76, 209, 181, 227,
           64, 30, 52, 163, 65, 44, 112, 126, 205, 29, 52, 46, 46, 237, 234,
           103, 42, 236 >>
      [] bytes = << 116, 116, 0, 0, 0 >> ->
           << 187, 110, 246, 129, 109, 145, 252, 93, 106, 164, 59, 193, 20,
           44, 185, 244, 233, 32, 214, 121, 211, 161, 157, 112, 164, 154, 120,
           223, 204, 60, 55, 125 >>
      [] bytes = << 116, 116, 0, 0, 116 >> ->
           << 208, 129, 15, 187, 34, 211, 133, 251, 74, 197, 230, 253, 220,
           84, 216, 212, 252, 16, 235, 149, 13, 121, 69, 118, 73, 2, 40, 62,
           160, 203, 209, 250 >>
      [] bytes = << 116, 116, 0, 116, 0 >> ->
           << 254, 220, 59, 21, 219, 149, 179, 10, 242, 1, 186, 108, 211, 42,
           106, 11, 214, 225, 190, 119, 231, 63, 135, 190, 93, 81, 56, 44, 9,
           52, 170, 80 >>
      [] bytes = << 116, 116, 0, 116, 116 >> ->
           << 5, 89, 180, 57, 130, 124, 165, 82, 42, 112, 155, 160, 10, 38,
           121, 58, 243, 80, 145, 47, 64, 30, 111, 44, 104, 159, 110, 212, 98,
           33, 255, 12 >>
      [] bytes = << 116, 116, 116, 0, 0 >> ->
           << 54, 236, 210, 130, 182, 245, 238, 14, 233, 191, 232, 130, 155,
           127, 36, 58, 123, 225, 116, 120, 128, 202, 175, 153, 140, 183, 26,
           36, 234, 91, 249, 244 >>
      [] bytes = << 116, 116, 116, 0, 116 >> ->
           << 112, 36, 39, 178, 222, 10, 120, 116, 79, 47, 193, 88, 106, 110,
           170, 94, 38, 57, 252, 222, 113, 229, 70, 30, 93, 0, 41, 94, 24,
           238, 72, 233 >>
      [] bytes = << 116, 116, 116, 116, 0 >> ->
           << 253, 124, 61, 193, 22, 228, 142, 9, 231, 12, 180, 158, 36, 190,
           154, 72, 93, 209, 122, 71, 220, 254, 129, 18, 34, 232, 96, 60, 116,
           184, 115, 42 >>
      [] bytes = << 116, 116, 116, 116, 116 >> ->
           << 211, 21, 223, 22, 0, 214, 41, 30, 108, 250, 153, 98, 87, 70,
           158, 232, 232, 97, 167, 46, 104, 125, 212, 27, 172, 239, 4, 130,
           48, 219, 91, 160 >>
      [] bytes = << 0, 0, 0, 0, 0, 0 >> ->
           << 80, 55, 225, 165, 224, 46, 8, 27, 27, 133, 11, 19, 14, 202, 122,
           193, 115, 53, 253, 244, 198, 28, 197, 255, 106, 231, 101, 25, 111,
           176, 213, 179 >>
      [] bytes = << 0, 0, 0, 0, 0, 116 >> ->
           << 238, 248, 118, 225, 175, 74, 90, 43, 189, 250, 170, 129, 131, 0,
           156, 25, 194, 131, 159, 51, 219, 158, 125, 166, 252, 18, 115, 195,
           217, 210, 53, 115 >>
      [] bytes = << 0, 0, 0, 0, 116, 0 >> ->
           << 209, 26, 212, 216, 159, 19, 177, 91, 246, 132, 245, 163, 71,
           228, 174, 27, 102, 99, 241, 158, 198, 13, 156, 31, 189, 217, 44,
           255, 13, 63, 170, 247 >>
      [] bytes = << 0, 0, 0, 0, 116, 116 >> ->
           << 151, 141, 120, 133, 128, 201, 87, 22, 140, 13, 43, 202, 250,
           187, 175, 34, 102, 218, 184, 20, 123, 213, 122, 76, 1, 79, 184,
           247, 214, 73, 23, 27 >>
      [] bytes = << 0, 0, 0, 116, 0, 0 >> ->
           << 175, 226, 76, 40, 110, 46, 203, 251, 227, 11, 155, 65, 21, 86,
           29, 192, 190, 230, 205, 32, 28, 194, 161, 85, 72, 248, 65, 229, 0,
           140, 26, 15 >>
      [] bytes = << 0, 0, 0, 116, 0, 116 >> ->
           << 58, 171, 88, 165, 252, 152, 99, 243, 68, 0, 30, 39, 148, 65,
           152, 2, 43, 187, 26, 147, 131, 109, 9, 120, 249, 21, 15, 20, 153,
           187, 207, 94 >>
      [] bytes = << 0, 0, 0, 116, 116, 0 >> ->
           << 231, 250, 107, 194, 155, 190, 203, 87, 231, 120, 5, 239, 218,
           111, 221, 154, 128, 187, 73, 236, 199, 155, 212, 119, 57, 167, 251,
           35, 239, 4, 12, 125 >>
      [] bytes = << 0, 0, 0, 116, 116, 116 >> ->
           << 200, 178, 121, 143, 148, 39, 24, 65, 96, 103, 211, 30, 13, 207,
           219, 49, 219, 255, 38, 196, 177, 66, 156, 132, 9, 189, 1, 193, 254,
           195, 94, 169 >>
      [] bytes = << 0, 0, 116, 0, 0, 0 >> ->
           << 37, 149, 218, 13, 151, 198, 222, 241, 209, 117, 249, 57, 87,
           226, 144, 177, 177, 130, 100, 145, 18, 65, 228, 196, 233, 129, 167,
           177, 221, 47, 15, 57 >>
      [] bytes = << 0, 0, 116, 0, 0, 116 >> ->
           << 252, 118, 60, 53, 91, 8, 71, 155, 8, 219, 227, 4, 125, 154, 113,
           12, 41, 13, 148, 250, 82, 96, 221, 165, 229, 157, 10, 68, 96, 246,
           159, 35 >>
      [] bytes = << 0, 0, 116, 0, 116, 0 >> ->
           << 60, 244, 8, 153, 11, 45, 226, 246, 149, 80, 38, 18, 33, 194,
           115, 109, 51, 64, 46, 32, 167, 26, 194, 89, 20, 178, 122, 197, 218,
           129, 15, 166 >>
      [] bytes = << 0, 0, 116, 0, 116, 116 >> ->
           << 235, 168, 34, 89, 39, 192, 239, 232, 98, 91, 219, 171, 223, 173,
           135, 230, 119, 194, 183, 115, 226, 10, 113, 27, 89, 234, 90, 171,
           209, 236, 136, 86 >>
      [] bytes = << 0, 0, 116, 116, 0, 0 >> ->
           << 121, 184, 29, 234, 189, 25, 173, 237, 250, 157, 10, 91, 5, 171,
           90, 96, 59, 104, 43, 227, 181, 134, 126, 3, 100, 202, 205, 64, 27,
           146, 169, 196 >>
      [] bytes = << 0, 0, 116, 116, 0, 116 >> ->
           << 238, 30, 40, 5, 200, 154, 228, 76, 225, 187, 164, 57, 180, 242,
           46, 36, 200, 244, 18, 251, 173, 237, 200, 68, 8, 247, 126, 128, 34,
           142, 148, 8 >>
      [] bytes = << 0, 0, 116, 116, 116, 0 >> ->
           << 118, 228, 73, 108, 133, 28, 81, 246, 212, 51, 107, 20, 37, 101,
           204, 0, 155, 172, 247, 67, 125, 138, 220, 189, 96, 167, 149, 171,
           182, 40, 109, 23 >>
      [] bytes = << 0, 0, 116, 116, 116, 116 >> ->
           << 170, 75, 245, 191, 66, 249, 213, 26, 0, 23, 254, 232, 196, 223,
           225, 127, 57, 243, 21, 69, 204, 54, 17, 37, 94, 252, 155, 152, 222,
           20, 33, 33 >>
      [] bytes = << 0, 116, 0, 0, 0, 0 >> ->
           << 252, 244, 203, 200, 33, 187, 59, 79, 34, 23, 97, 183, 60, 165,
           193, 99, 92, 245, 194, 75, 24, 116, 109, 195, 6, 143, 26, 19, 67,
           190, 122, 86 >>
      [] bytes = << 0, 116, 0, 0, 0, 116 >> ->
           << 176, 5, 25, 171, 99, 72, 150, 182, 128, 73, 199, 6, 60, 14, 117,
           147, 16, 119, 15, 224, 53, 50, 36, 224, 183, 107, 213, 243, 142,
           229, 178, 34 >>
      [] bytes = << 0, 116, 0, 0, 116, 0 >> ->
           << 145, 10, 252, 69, 80, 225, 176, 141, 56, 248, 218, 43, 165, 146,
           178, 117, 31, 88, 8, 116, 159, 38, 136, 94, 60, 143, 99, 109, 81,
           130, 131, 165 >>
      [] bytes = << 0, 116, 0, 0, 116, 116 >> ->
           << 33, 92, 8, 132, 12, 165, 15, 243, 182, 98, 229, 122, 26, 187,
           226, 9, 38, 69, 236, 33, 158, 117, 40, 239, 145, 65, 215, 226, 255,
           172, 72, 226 >>
      [] bytes = << 0, 116, 0, 116, 0, 0 >> ->
           << 131, 185, 172, 99, 253, 185, 201, 208, 66, 179, 29, 252, 239,
           255, 194, 194, 43, 105, 150, 173, 228, 215, 0, 37, 30, 112, 192,
           140, 177, 213, 73, 26 >>
      [] bytes = << 0, 116, 0, 116, 0, 116 >> ->
           << 254, 75, 108, 203, 83, 137, 196, 3, 160, 104, 249, 7, 167, 140,
           34, 131, 142, 236, 70, 20, 84, 6, 51, 32, 119, 145, 137, 144, 200,
           52, 114, 78 >>
      [] bytes = << 0, 116, 0, 116, 116, 0 >> ->
           << 250, 194, 237, 252, 74, 136, 35, 26, 239, 115, 8, 189, 173, 96,
           167, 184, 195, 159, 231, 85, 179, 253, 37, 120, 96, 150, 212, 224,
           203, 230, 17, 36 >>
      [] bytes = << 0, 116, 0, 116, 116, 116 >> ->
           << 145, 132, 193, 212, 152, 24, 220, 64, 196, 119, 227, 169, 87,
           116, 196, 12, 251, 175, 71, 106, 16, 125, 181, 194, 226, 203, 66,
           18, 30, 16, 62, 67 >>
      [] bytes = << 0, 116, 116, 0, 0, 0 >> ->
           << 28, 94, 38, 80, 18, 60, 242, 239, 9, 112, 168, 59, 69, 191, 144,
           187, 90, 89, 146, 235, 179, 239, 109, 85, 223, 31, 3, 98, 60, 113,
           119, 112 >>
      [] bytes = << 0, 116, 116, 0, 0, 116 >> ->
           << 136, 126, 48, 154, 21, 83, 126, 50, 63, 153, 20, 130, 179, 228,
           126, 23, 89, 93, 199, 68, 52, 61, 152, 91, 73, 226, 128, 32, 173,
           238, 212, 83 >>
      [] bytes = << 0, 116, 116, 0, 116, 0 >> ->
           << 53, 229, 58, 224, 164, 59, 4, 183, 220, 107, 197, 196, 92, 77,
           219, 225, 113, 122, 178, 83, 26, 85, 13, 95, 143, 39, 136, 234,
           138, 208, 40, 46 >>
      [] bytes = << 0, 116, 116, 0, 116, 116 >> ->
           << 172, 102, 113, 214, 175, 15, 157, 73, 177, 196, 120, 237, 119,
           24, 41, 40, 252, 220, 52, 33, 221, 9, 102, 65, 221, 140, 235, 117,
           80, 236, 75, 141 >>
      [] bytes = << 0, 116, 116, 116, 0, 0 >> ->
           << 55, 172, 37, 173, 47, 54, 12, 7, 118, 244, 95, 210, 53, 29, 27,
           143, 255, 7, 144, 221, 231, 248, 151, 121, 190, 156, 12, 149, 81,
           197, 153, 209 >>
      [] bytes = << 0, 116, 116, 116, 0, 116 >> ->
           << 11, 106, 43, 169, 7, 123, 53, 26, 95, 182, 196, 158, 86, 222,
           55, 47, 38, 25, 165, 37, 211, 239, 183, 43, 219, 210, 114, 80, 200,
           68, 84, 108 >>
      [] bytes = << 0, 116, 116, 116, 116, 0 >> ->
           << 1, 38, 255, 74, 88, 49, 54, 117, 213, 152, 108, 116, 241, 106,
           212, 46, 67, 221, 60, 213, 159, 212, 143, 129, 218, 233, 237, 33,
           19, 236, 235, 220 >>
      [] bytes = << 0, 116, 116, 116, 116, 116 >> ->
           << 163, 100, 132, 213, 39, 126, 206, 31, 130, 5, 5, 136, 235, 116,
           36, 137, 236, 159, 178, 70, 61, 237, 4, 66, 112, 93, 88, 89, 64,
           81, 123, 124 >>
      [] bytes = << 116, 0, 0, 0, 0, 0 >> ->
           << 73, 200, 50, 179, 206, 160, 196, 178, 9, 148, 69, 34, 162, 128,
           208, 73, 179, 115, 102, 212, 150, 230, 60, 110, 26, 240, 220, 121,
           232, 153, 210, 214 >>
      [] bytes = << 116, 0, 0, 0, 0, 116 >> ->
           << 13, 16, 244, 39, 166, 118, 48, 4, 77, 68, 37, 128, 205, 243,
           172, 218, 186, 254, 15, 131, 99, 29, 145, 61, 139, 51, 149, 77,
           244, 181, 105, 164 >>
      [] bytes = << 116, 0, 0, 0, 116, 0 >> ->
           << 210, 89, 128, 15, 167, 238, 67, 34, 166, 26, 112, 55, 157, 62,
           152, 247, 49, 82, 179, 110, 36, 12, 171, 224, 113, 200, 213, 25,
           103, 122, 78, 136 >>
      [] bytes = << 116, 0, 0, 0, 116, 116 >> ->
           << 252, 112, 198, 31, 247, 169, 157, 161, 238, 122, 178, 63, 232,
           5, 30, 100, 198, 153, 150, 157, 190, 214, 98, 212, 109, 237, 51, 6,
           92, 199, 195, 177 >>
      [] bytes = << 116, 0, 0, 116, 0, 0 >> ->
           << 101, 161, 147, 53, 191, 21, 195, 194, 194, 144, 206, 255, 61,
           151, 221, 191, 133, 208, 121, 35, 146, 223, 44, 145, 56, 190, 38,
           205, 4, 43, 137, 113 >>
      [] bytes = << 116, 0, 0, 116, 0, 116 >> ->
           << 134, 255, 183, 99, 7, 199, 161, 9, 131, 233, 95, 117, 237, 6,
           36, 222, 25, 39, 92, 87, 182, 99, 222, 163, 102, 47, 171, 175, 13,
           143, 16, 175 >>
      [] bytes = << 116, 0, 0, 116, 116, 0 >> ->
           << 149, 164, 169, 238, 144, 123, 79, 12, 51, 79, 131, 31, 141, 30,
           186, 76, 245, 165, 70, 146, 58, 74, 250, 33, 79, 69, 101, 177, 174,
           190, 0, 39 >>
      [] bytes = << 116, 0, 0, 116, 116, 116 >> ->
           << 221, 113, 195, 186, 245, 232, 28, 248, 204, 227, 41, 215, 25,
           59, 104, 223, 42, 214, 61, 64, 183, 157, 11, 134, 148, 199, 149,
           164, 28, 79, 173, 145 >>
      [] bytes = << 116, 0, 116, 0, 0, 0 >> ->
           << 195, 163, 101, 156, 167, 131, 120, 190, 139, 191, 203, 48, 190,
           14, 62, 41, 173, 200, 144, 192, 108, 36, 67, 71, 216, 235, 83, 17,
           214, 44, 83, 173 >>
      [] bytes = << 116, 0, 116, 0, 0, 116 >> ->
           << 35, 151, 63, 14, 22, 60, 67, 1, 2, 169, 183, 117, 90, 210, 37,
           195, 141, 71, 42, 110, 104, 16, 175, 46, 88, 105, 253, 225, 236,
           152, 101, 12 >>
      [] bytes = << 116, 0, 116, 0, 116, 0 >> ->
           << 185, 208, 57, 43, 116, 184, 217, 96, 147, 68, 226, 69, 22, 183,
           42, 135, 57, 62, 243, 12, 173, 100, 60, 104, 217, 89, 132, 49, 116,
           108, 27, 225 >>
      [] bytes = << 116, 0, 116, 0, 116, 116 >> ->
           << 86, 112, 33, 164, 75, 210, 216, 137, 74, 251, 205, 96, 133, 216,
           0, 142, 232, 110, 83, 87, 76, 31, 137, 18, 103, 34, 168, 87, 51, 6,
           233, 206 >>
      [] bytes = << 116, 0, 116, 116, 0, 0 >> ->
           << 13, 35, 203, 165, 102, 87, 39, 108, 52, 85, 129, 150, 99, 248,
           153, 81, 0, 223, 197, 73, 65, 167, 25, 182, 10, 228, 25, 99, 244,
           56, 121, 157 >>
      [] bytes = << 116, 0, 116, 116, 0, 116 >> ->
           << 250, 192, 72, 226, 111, 211, 46, 216, 151, 133, 142, 185, 30,
           57, 26, 101, 26, 154, 205, 217, 145, 197, 251, 131, 216, 221, 154,
           111, 38, 213, 135, 114 >>
      [] bytes = << 116, 0, 116, 116, 116, 0 >> ->
           << 42, 147, 248, 215, 130, 140, 19, 68, 194, 172, 20, 85, 121, 243,
           199, 44, 85, 185, 66, 17, 4, 184, 76, 100, 19, 243, 231, 97, 79,
           155, 241, 43 >>
      [] bytes = << 116, 0, 116, 116, 116, 116 >> ->
           << 12, 111, 98, 36, 155, 152, 224, 247, 19, 16, 164, 171, 121, 30,
           133, 148, 215, 47, 215, 247, 71, 101, 78, 201, 46, 116, 69, 145,
           167, 112, 96, 217 >>
      [] bytes = << 116, 116, 0, 0, 0, 0 >> ->
           << 162, 219, 51, 39, 180, 47, 3, 200, 60, 156, 108, 201, 239, 102,
           79, 157, 184, 216, 185, 167, 131, 40, 152, 14, 18, 203, 200, 10,
           90, 103, 182, 117 >>
      [] bytes = << 116, 116, 0, 0, 0, 116 >> ->
           << 243, 90, 83, 5, 90, 85, 104, 201, 183, 20, 85, 208, 117, 231,
           187, 120, 87, 157, 215, 10, 193, 232, 32, 212, 72, 249, 232, 138,
           218, 231, 118, 133 >>
      [] bytes = << 116, 116, 0, 0, 116, 0 >> ->
           << 139, 112, 170, 154, 7, 240, 32, 104, 22, 168, 63, 217, 154, 161,
           169, 84, 42, 108, 229, 5, 66, 72, 198, 188, 121, 47, 159, 120, 85,
           129, 223, 177 >>
      [] bytes = << 116, 116, 0, 0, 116, 116 >> ->
           << 47, 21, 240, 47, 8, 217, 214, 215, 205, 235, 120, 236, 135, 24,
           107, 56, 217, 89, 62, 16, 89, 128, 231, 51, 142, 3, 18, 217, 178,
           130, 156, 196 >>
      [] bytes = << 116, 116, 0, 116, 0, 0 >> ->
           << 15, 47, 115, 99, 76, 43, 187, 109, 55, 170, 224, 156, 221, 7,
           117, 129, 137, 233, 131, 62, 207, 64, 118, 1, 100, 165, 172, 139,
           200, 41, 150, 116 >>
      [] bytes = << 116, 116, 0, 116, 0, 116 >> ->
           << 166, 43, 176, 167, 144, 176, 47, 79, 180, 193, 143, 141, 70,
           205, 165, 29, 180, 80, 172, 9, 153, 28, 254, 84, 85, 109, 43, 156,
           185, 18, 217, 22 >>
      [] bytes = << 116, 116, 0, 116, 116, 0 >> ->
           << 207, 245, 184, 107, 10, 136, 94, 109, 140, 98, 238, 163, 159,
           117, 208, 209, 28, 119, 87, 150, 43, 230, 168, 232, 41, 90, 35,
           168, 85, 195, 139, 234 >>
      [] bytes = << 116, 116, 0, 116, 116, 116 >> ->
           << 85, 35, 221, 157, 201, 118, 240, 117, 174, 181, 121, 196, 148,
           53, 36, 43, 56, 21, 250, 55, 110, 227, 69, 34, 88, 218, 36, 37,
           252, 84, 136, 85 >>
      [] bytes = << 116, 116, 116, 0, 0, 0 >> ->
           << 176, 107, 57, 229, 207, 74, 95, 2, 30, 175, 199, 129, 112, 249,
           87, 4, 147, 16, 58, 132, 246, 114, 87, 255, 151, 158, 171, 48, 14,
           235, 149, 226 >>
      [] bytes = << 116, 116, 116, 0, 0, 116 >> ->
           << 63, 54, 224, 155, 141, 211, 59, 247, 203, 92, 192, 186, 164, 84,
           32, 95, 88, 166, 7, 235, 185, 102, 243, 155, 9, 20, 33, 252, 218,
           19, 133, 144 >>
      [] bytes = << 116, 116, 116, 0, 116, 0 >> ->
           << 45, 118, 121, 12, 165, 196, 32, 25, 20, 82, 123, 60, 246, 59,
           194, 117, 246, 236, 3, 128, 12, 125, 89, 99, 112, 6, 34, 94, 74,
           20, 13, 252 >>
      [] bytes = << 116, 116, 116, 0, 116, 116 >> ->
           << 74, 236, 152, 0, 171, 43, 153, 52, 55, 51, 54, 146, 168, 120,
           130, 186, 3, 214, 236, 232, 214, 95, 75, 241, 140, 87, 130, 54,
           160, 108, 146, 173 >>
      [] bytes = << 116, 116, 116, 116, 0, 0 >> ->
           << 200, 193, 40, 106, 151, 8, 86, 122, 105, 201, 12, 27, 94, 38, 8,
           10, 237, 15, 174, 53, 27, 31, 251, 123, 54, 103, 239, 117, 20, 1,
           215, 123 >>
      [] bytes = << 116, 116, 116, 116, 0, 116 >> ->
           << 183, 70, 154, 159, 118, 194, 235, 187, 208, 69, 118, 215, 26,
           198, 13, 242, 27, 96, 232, 52, 221, 32, 217, 49, 191, 200, 27, 166,
           61, 33, 79, 242 >>
      [] bytes = << 116, 116, 116, 116, 116, 0 >> ->
           << 230, 6, 191, 187, 91, 220, 101, 193, 54, 85, 254, 60, 56, 5,
           116, 167, 137, 102, 190, 222, 150, 83, 248, 112, 213, 195, 110,
           162, 14, 146, 78, 190 >>
      [] bytes = << 116, 116, 116, 116, 116, 116 >> ->
           << 251, 139, 135, 193, 230, 44, 48, 248, 241, 121, 231, 15, 31,
           115, 219, 66, 235, 128, 211, 192, 83, 125, 117, 196, 21, 153, 209,
           82, 53, 42, 87, 251 >>
      [] bytes = << 116, 101, 115, 116 >> ->
           << 156, 34, 255, 95, 33, 240, 184, 27, 17, 62, 99, 247, 219, 109,
           169, 79, 237, 239, 17, 178, 17, 155, 64, 136, 184, 150, 100, 251,
           154, 60, 182, 88 >>
      [] bytes = << 104, 101, 108, 108, 111, 32, 119, 111, 114, 108, 100 >> ->
           << 71, 23, 50, 133, 168, 215, 52, 30, 94, 151, 47, 198, 119, 40,
           99, 132, 248, 2, 248, 239, 66, 165, 236, 95, 3, 187, 250, 37, 76,
           176, 31, 173 >>
      [] bytes = << 0, 0, 0, 0, 0, 0, 0, 0, 0, 0, 0, 0, 0, 0, 0, 0, 0, 0, 0,
                  0, 0, 0, 0, 0, 0, 0, 0, 0, 0, 0, 0, 1, 116, 101, 115, 116 >> ->
           << 136, 200, 201, 4, 130, 50, 15, 24, 176, 192, 132, 47, 234, 234,
           184, 128, 101, 253, 126, 243, 239, 123, 6, 6, 106, 248, 35, 216,
           238, 246, 249, 111 >>

\* A hash_to_field that forgets the shift.
hash_to_field_noshift(input) == keccak256(input)

\* hash_to_field: the digest as a 256-bit big-endian number, shifted right by
\* 8 bits; the result is given by its 32 big-endian bytes.
hash_to_field(input) == << 0 >> \o SubSeq(keccak256(input), 1, 31)

\* encode_signal.
encode_signal(signal) == hash_to_field(abi_encode_packed(signal))

HexDigits ==
    << "0", "1", "2", "3", "4", "5", "6", "7", "8", "9",
       "a", "b", "c", "d", "e", "f" >>

\* format!("0x{:x}", n) of a U256 given by its 32 bytes: "0x" and two
\* lowercase hex digits per byte.
HexText(bytes) ==
    << "0x" >> \o Concat([i \in 1..Len(bytes) |->
                            << HexDigits[(bytes[i] \div 16) + 1],
                               HexDigits[(bytes[i] % 16) + 1] >>])

(***************************************************************************)
(* session/mod.rs: Session::new, connect_url, poll_for_status              *)
(***************************************************************************)

NoSession ==
    [exists |-> FALSE, key |-> << >>, key_bytes |-> << >>, request_id |-> "",
     bridge_url |-> DefaultBridgeUrl]

\* StatusCode::is_success.
is_success(status) == status >= 200 /\ status <= 299

\* A request the client sends.
PostMessage(url, payload) ==
    [method |-> "POST", url |-> UrlText(url), body |-> payload]

GetMessage(url) == [method |-> "GET", url |-> UrlText(url), body |-> NoPayload]

\* The json! request of Session::new.
RequestJson(app_id, action, action_description, level, signal) ==
    [app_id |-> app_id, action |-> action,
     action_description |-> action_description,
     signal |-> HexText(encode_signal(signal)),
     verification_level |-> LevelText(level),
     credential_types |-> to_credential_types(level)]

\* The URL Session::new posts to.
RequestUrl(bridge_url) == UrlJoin(bridge_url, << "/", "request" >>)

\* A ResponseUrl that polls the default bridge, whatever the session's.
ResponseUrl_default(bridge_url, request_id) ==
    UrlJoin(DefaultBridgeUrl, << "/", "response", "/", request_id >>)

\* The URL poll_for_status gets.
ResponseUrl(bridge_url, request_id) ==
    UrlJoin(bridge_url, << "/", "response", "/", request_id >>)

\* Session::connect_url, as the text of the Url it returns.
connect_url(s) ==
    << "https", ":", "/", "/", "worldcoin.org", "/", "verify", "?",
       "t", "=", "wld", "&", "i", "=", s.request_id, "&", "k", "=" >>
    \o urlencoding_encode(base64_encode(s.key_bytes))
    \o (IF s.bridge_url = DefaultBridgeUrl THEN << >>
        ELSE << "&", "b", "=" >> \o UrlText(s.bridge_url))

\* The result of a poll.
PollOk(status) == [kind |-> "Ok", status |-> status, err |-> ""]

PollErr(e) == [kind |-> "Err", status |-> NoStatus, err |-> e]

PollPanic == [kind |-> "Panic", status |-> NoStatus, err |-> "unreachable"]

NoResult == [kind |-> "", status |-> NoStatus, err |-> ""]

\* A poll that reads the two waiting statuses the other way round.
poll_for_status_swapped(s, reply) ==
    IF ~reply.sent THEN PollErr("Bridge")
    ELSE IF ~is_success(reply.status) THEN PollOk(Failed("ConnectionFailed"))
    ELSE IF ~reply.body.json THEN PollErr("Bridge")
    ELSE IF reply.body.status # "completed" THEN
        CASE reply.body.status = "retrieved" -> PollOk(WaitingForConnection)
          [] reply.body.status = "initialized" -> PollOk(AwaitingConfirmation)
          [] OTHER -> PollPanic
    ELSE IF ~reply.body.response.has THEN PollPanic
    ELSE LET d == decrypt_response(s.key, reply.body.response.env)
         IN  IF ~d.ok THEN PollErr(d.err)
             ELSE IF d.response.variant = "Error"
             THEN PollOk(Failed(d.response.error_code))
             ELSE PollOk(Confirmed(d.response.proof))

\* A poll that turns a non-success status into an error, as
\* Response::error_for_status would.
poll_for_status_strict(s, reply) ==
    IF ~reply.sent THEN PollErr("Bridge")
    ELSE IF ~is_success(reply.status) THEN PollErr("Bridge")
    ELSE IF ~reply.body.json THEN PollErr("Bridge")
    ELSE IF reply.body.status # "completed" THEN
        CASE reply.body.status = "retrieved" -> PollOk(AwaitingConfirmation)
          [] reply.body.status = "initialized" -> PollOk(WaitingForConnection)
          [] OTHER -> PollPanic
    ELSE IF ~reply.body.response.has THEN PollPanic
    ELSE LET d == decrypt_response(s.key, reply.body.response.env)
         IN  IF ~d.ok THEN PollErr(d.err)
             ELSE IF d.response.variant = "Error"
             THEN PollOk(Failed(d.response.error_code))
             ELSE PollOk(Confirmed(d.response.proof))

\* The requests one call of poll_for_status sends: the GET, once.
poll_requests(s) == << GetMessage(ResponseUrl(s.bridge_url, s.request_id)) >>

\* A poll_for_status that gives up on a request the World App has not yet
\* answered.
poll_for_status_impatient(s, reply) ==
    IF ~reply.sent THEN PollErr("Bridge")
    ELSE IF ~is_success(reply.status) THEN PollOk(Failed("ConnectionFailed"))
    ELSE IF ~reply.body.json THEN PollErr("Bridge")
    ELSE IF reply.body.status # "completed" THEN
        CASE reply.body.status = "retrieved" -> PollOk(Failed("ConnectionFailed"))
          [] reply.body.status = "initialized" -> PollOk(WaitingForConnection)
          [] OTHER -> PollPanic
    ELSE IF ~reply.body.response.has THEN PollPanic
    ELSE LET d == decrypt_response(s.key, reply.body.response.env)
         IN  IF ~d.ok THEN PollErr(d.err)
             ELSE IF d.response.variant = "Error"
             THEN PollOk(Failed(d.response.error_code))
             ELSE PollOk(Confirmed(d.response.proof))

\* A poll_for_status that reports an envelope it cannot open as a failed
\* request.
poll_for_status_swallow(s, reply) ==
    IF ~reply.sent THEN PollErr("Bridge")
    ELSE IF ~is_success(reply.status) THEN PollOk(Failed("ConnectionFailed"))
    ELSE IF ~reply.body.json THEN PollErr("Bridge")
    ELSE IF reply.body.status # "completed" THEN
        CASE reply.body.status = "retrieved" -> PollOk(AwaitingConfirmation)
          [] reply.body.status = "initialized" -> PollOk(WaitingForConnection)
          [] OTHER -> PollPanic
    ELSE IF ~reply.body.response.has THEN PollPanic
    ELSE LET d == decrypt_response(s.key, reply.body.response.env)
         IN  IF ~d.ok THEN PollOk(Failed("GenericError"))
             ELSE IF d.response.variant = "Error"
             THEN PollOk(Failed(d.response.error_code))
             ELSE PollOk(Confirmed(d.response.proof))

\* A poll_for_status that answers a body it does not understand with
\* Failed(UnexpectedResponse).
poll_for_status_lenient(s, reply) ==
    IF ~reply.sent THEN PollErr("Bridge")
    ELSE IF ~is_success(reply.status) THEN PollOk(Failed("ConnectionFailed"))
    ELSE IF ~reply.body.json THEN PollErr("Bridge")
    ELSE IF reply.body.status # "completed" THEN
        CASE reply.body.status = "retrieved" -> PollOk(AwaitingConfirmation)
          [] reply.body.status = "initialized" -> PollOk(WaitingForConnection)
          [] OTHER -> PollOk(Failed("UnexpectedResponse"))
    ELSE IF ~reply.body.response.has THEN PollOk(Failed("UnexpectedResponse"))
    ELSE LET d == decrypt_response(s.key, reply.body.response.env)
         IN  IF ~d.ok THEN PollErr(d.err)
             ELSE IF d.response.variant = "Error"
             THEN PollOk(Failed(d.response.error_code))
             ELSE PollOk(Confirmed(d.response.proof))

\* A poll_for_status that takes a "completed" request for one still awaiting
\* confirmation.
poll_for_status_deaf(s, reply) ==
    IF ~reply.sent THEN PollErr("Bridge")
    ELSE IF ~is_success(reply.status) THEN PollOk(Failed("ConnectionFailed"))
    ELSE IF ~reply.body.json THEN PollErr("Bridge")
    ELSE CASE reply.body.status \in {"retrieved", "completed"} ->
                PollOk(AwaitingConfirmation)
           [] reply.body.status = "initialized" -> PollOk(WaitingForConnection)
           [] OTHER -> PollPanic

\* Session::poll_for_status after the GET: `reply` is what send() gave.
poll_for_status(s, reply) ==
    IF ~reply.sent THEN PollErr("Bridge")
    ELSE IF ~is_success(reply.status) THEN PollOk(Failed("ConnectionFailed"))
    ELSE IF ~reply.body.json THEN PollErr("Bridge")
    ELSE IF reply.body.status # "completed" THEN
        CASE reply.body.status = "retrieved" -> PollOk(AwaitingConfirmation)
          [] reply.body.status = "initialized" -> PollOk(WaitingForConnection)
          [] OTHER -> PollPanic
    ELSE IF ~reply.body.response.has THEN PollPanic
    ELSE LET d == decrypt_response(s.key, reply.body.response.env)
         IN  IF ~d.ok THEN PollErr(d.err)
             ELSE IF d.response.variant = "Error"
             THEN PollOk(Failed(d.response.error_code))
             ELSE PollOk(Confirmed(d.response.proof))

(***************************************************************************)
(* The inputs the model draws from                                         *)
(***************************************************************************)

\* How many different keys the random source can produce.
NumRandom == 2

\* The i-th 32-byte key and 12-byte nonce SystemRandom may write.  Key 1 is
\* all 0xFB, so that its base64 text holds "+", "/" and "=".
KeyOf(i) == [j \in 1..KEY_LEN |-> IF i = 1 THEN 251 ELSE (i * 97 + j * 37) % 256]

NonceOf(i) == [j \in 1..NONCE_LEN |-> (i * 53 + j * 11) % 256]

RandFailed == [ok |-> FALSE, bytes |-> << >>]

KeyRands == {RandFailed} \cup {[ok |-> TRUE, bytes |-> KeyOf(i)] : i \in 1..NumRandom}

IvRands == {RandFailed} \cup {[ok |-> TRUE, bytes |-> NonceOf(1)]}

\* The key of some other session, and the nonce the World App seals with.
OtherKey == KeyOf(0)

AppNonce == NonceOf(0)

\* Bridge URLs a caller may hold: the default, a custom https one, and a
\* loopback one with a port, a path, a query and a fragment.
CustomBridgeUrl ==
    MkUrl("https", SomeHost("bridge.example.com"), "", << "/" >>, NoText, NoText)

LoopbackBridgeUrl ==
    MkUrl("http", SomeHost("localhost"), "8080", << "/", "api" >>,
          SomeText(<< "x", "=", "1", "&", "k", "=", "e" >>),
          SomeText(<< "top" >>))

BridgeUrls ==
    {u \in {DefaultBridgeUrl, CustomBridgeUrl, LoopbackBridgeUrl} :
        try_from(u).kind = "Ok"}

\* The arguments of Session::new and the kind of caller: "loop" is the
\* polling loop of examples/flow.rs, "api" any other user of the API.
Config(bridge_url, level, signal, caller) ==
    [bridge_url |-> bridge_url, level |-> level, signal |-> signal,
     caller |-> caller]

Configs ==
    {c \in { Config(DefaultBridgeUrl, "Orb", "", "loop"),
             Config(CustomBridgeUrl, "Device", "test", "loop"),
             Config(DefaultBridgeUrl, "Device", "test", "api"),
             Config(CustomBridgeUrl, "Orb", "", "api"),
             Config(LoopbackBridgeUrl, "Orb", "test", "api") } :
        c.bridge_url \in BridgeUrls}

\* What the bridge may answer to POST /request.
NoCreateBody == [json |-> FALSE, request_id |-> Absent]

CreateBodies ==
    {NoCreateBody}
    \cup {[json |-> TRUE, request_id |-> t] :
            t \in {"3f2504e0-4f89-11d3-9a0c-0305e82c3301",
                   "3F2504E0-4F89-11D3-9A0C-0305E82C3301",
                   "not-a-uuid", Absent}}

CreateReplies ==
    {[sent |-> FALSE, status |-> 0, body |-> NoCreateBody]}
    \cup [sent : {TRUE}, status : {201}, body : CreateBodies]
    \cup [sent : {TRUE}, status : {500},
          body : {NoCreateBody,
                  [json |-> TRUE,
                   request_id |-> "3f2504e0-4f89-11d3-9a0c-0305e82c3301"]}]

\* The decrypted bodies the World App may send.
Plain(error_code, proof, credential_type) ==
    [json |-> TRUE, error_code |-> error_code, proof |-> proof,
     merkle_root |-> IF proof = Absent THEN Absent ELSE "0x1f38",
     nullifier_hash |-> IF proof = Absent THEN Absent ELSE "0x2a7c",
     credential_type |-> credential_type]

NotJson ==
    [json |-> FALSE, error_code |-> Absent, proof |-> Absent,
     merkle_root |-> Absent, nullifier_hash |-> Absent,
     credential_type |-> Absent]

ResponsePlains ==
    { Plain("verification_rejected", Absent, Absent),
      Plain("user_cancelled", Absent, Absent),
      Plain(Absent, "0x0d6e", "orb"),
      Plain(Absent, "0x0d6e", "device"),
      Plain("generic_error", "0x0d6e", "orb"),
      Plain("user_cancelled", "0x0d6e", "device"),
      NotJson }

\* The envelopes the bridge may relay for a session with key `key`: each body
\* sealed under the session key, and one body in a damaged envelope.
GoodEnvelope(key, plain) ==
    [iv |-> base64_encode(AppNonce),
     payload |-> base64_encode_sealed(Sealed(key, AppNonce, plain))]

BadEnvelopes(key) ==
    LET good == GoodEnvelope(key, Plain(Absent, "0x0d6e", "orb"))
    IN  { [good EXCEPT !.payload.ct.intact = FALSE],
          GoodEnvelope(OtherKey, Plain(Absent, "0x0d6e", "orb")),
          [good EXCEPT !.iv = SubSeq(good.iv, 1, 15)],
          [good EXCEPT !.iv = base64_encode(SubSeq(AppNonce, 1, 8))],
          [good EXCEPT !.payload.b64 = FALSE],
          [good EXCEPT !.iv = base64_encode(SubSeq(AppNonce, 1, 8)),
                       !.payload.b64 = FALSE] }

Envelopes(key) ==
    {GoodEnvelope(key, p) : p \in ResponsePlains} \cup BadEnvelopes(key)

\* What can go wrong with one GET /response/{id}.
PollFaults ==
    {"none", "neterr", "http500", "badjson", "badstatus", "noresponse"}

NoEnvelope == [has |-> FALSE, env |-> NoPayload]

NoPollBody == [json |-> FALSE, status |-> "", response |-> NoEnvelope]

NoReply == [sent |-> FALSE, status |-> 0, body |-> NoPollBody]

\* The reply to a GET, given the bridge's state and the fault of this GET.
BridgeReply(b, fault) ==
    CASE fault = "neterr" -> NoReply
      [] fault = "http500" ->
           [sent |-> TRUE, status |-> 500,
            body |-> [json |-> TRUE, status |-> b.status, response |-> b.response]]
      [] fault = "badjson" -> [sent |-> TRUE, status |-> 200, body |-> NoPollBody]
      [] fault = "badstatus" ->
           [sent |-> TRUE, status |-> 200,
            body |-> [json |-> TRUE, status |-> "expired", response |-> NoEnvelope]]
      [] fault = "noresponse" ->
           [sent |-> TRUE, status |-> 200,
            body |-> [json |-> TRUE, status |-> "completed", response |-> NoEnvelope]]
      [] OTHER ->
           [sent |-> TRUE, status |-> 200,
            body |-> [json |-> TRUE, status |-> b.status, response |-> b.response]]

(***************************************************************************)
(* The state                                                               *)
(***************************************************************************)

VARIABLES
    cfg,         \* the arguments of Session::new and the kind of caller
    session,     \* the Session, once Session::new has returned one
    newIn,       \* what Session::new met: the random source, the steps that
                 \* can fail, the reply to its POST
    newResult,   \* "" before Session::new has returned, then "Ok" or its error
    sent,        \* every request sent to the bridge
    bridge,      \* the bridge's record of the request: status and response
    connect,     \* the latest value of connect_url, << >> before
    pollRecv,    \* the reply the latest poll received
    pollResult,  \* what the latest poll returned
    prevStatus,  \* the Status returned before lastStatus
    lastStatus,  \* the latest Status a poll returned
    pc,          \* where the caller is
    requests,    \* which of Session::new and poll_for_status was called
                 \* last, and how many requests that call sent
    streak,      \* how many polls in a row, up to the latest, met the same
                 \* waiting status of the bridge (counted up to MaxStreak)
    urlIn,       \* the Url given to BridgeUrl::try_from
    urlOut,      \* what BridgeUrl::try_from returned for it
    vIn,         \* the arguments and the reply of verify_proof
    vOut,        \* what verify_proof returned
    hashIn,      \* the bytes given to hash_to_field
    hashOut,     \* what hash_to_field returned for them
    idIn,        \* the string given to AppId::from_str
    idOut,       \* what AppId::from_str returned, and is_staging of it
    sealIn,      \* a plaintext, the random source and the key that opens
    sealOut      \* the envelope encrypt_request made, and how it opened

vars ==
    << cfg, session, newIn, newResult, sent, bridge,
       connect, pollRecv, pollResult, prevStatus, lastStatus, pc, requests,
       streak, urlIn, urlOut, vIn, vOut, hashIn, hashOut, idIn, idOut,
       sealIn, sealOut >>

urlVars == << urlIn, urlOut >>

verifyVars == << vIn, vOut >>

hashVars == << hashIn, hashOut >>

idVars == << idIn, idOut >>

sealVars == << sealIn, sealOut >>

\* The variables of the functions that need no Session.
pureVars == << urlVars, verifyVars, hashVars, idVars, sealVars >>

sessionVars ==
    << cfg, session, newIn, newResult, sent, bridge,
       connect, pollRecv, pollResult, prevStatus, lastStatus, pc, requests,
       streak >>

\* The app id and action of examples/flow.rs.
FlowAppId == "app_ce4cb73cb75fc3b73b71ffb4de178410"

FlowAction == "test-action"

\* The inputs of Session::new before it has run.
NoNewIn ==
    [buildOk |-> FALSE, ivRand |-> RandFailed, keyRand |-> RandFailed,
     toVecOk |-> FALSE, sealOk |-> FALSE,
     reply |-> [sent |-> FALSE, status |-> 0, body |-> NoCreateBody]]

NoBridge == [status |-> "", response |-> NoEnvelope]

NoUrl == MkUrl("", NoHost, "", << >>, NoText, NoText)

NoTry == [kind |-> "", err |-> "", url |-> NoUrl]

\* A Session::new that sends the POST again when it got no response.
Session_new_retry(c, buildOk, ivRand, keyRand, toVecOk, sealOk, reply) ==
    LET g   == generate_key(ivRand, keyRand)
        e   == encrypt_request(g.key, g.iv,
                   RequestJson(FlowAppId, FlowAction, Absent, c.level, c.signal),
                   toVecOk, sealOk)
        rid == ParseCreateResponse(reply.body)
        post == PostMessage(RequestUrl(c.bridge_url), e.payload)
    IN  IF ~buildOk
        THEN [session |-> NoSession, result |-> "Bridge", sent |-> << >>]
        ELSE IF ~g.ok
        THEN [session |-> NoSession, result |-> g.err, sent |-> << >>]
        ELSE IF ~e.ok
        THEN [session |-> NoSession, result |-> e.err, sent |-> << >>]
        ELSE IF ~reply.sent
        THEN [session |-> NoSession, result |-> "Bridge", sent |-> << post, post >>]
        ELSE IF rid = ""
        THEN [session |-> NoSession, result |-> "Bridge", sent |-> << post >>]
        ELSE [session |-> [exists |-> TRUE, key |-> g.key,
                           key_bytes |-> g.key_bytes, request_id |-> rid,
                           bridge_url |-> c.bridge_url],
              result |-> "Ok", sent |-> << post >>]

\* Session::new.  buildOk: whether the reqwest client could be built; ivRand,
\* keyRand, toVecOk, sealOk: see generate_key and encrypt_request; reply: what
\* send() gave.  The result names the Session, "Ok" or the error, and the
\* requests sent.
Session_new(c, buildOk, ivRand, keyRand, toVecOk, sealOk, reply) ==
    LET g   == generate_key(ivRand, keyRand)
        e   == encrypt_request(g.key, g.iv,
                   RequestJson(FlowAppId, FlowAction, Absent, c.level, c.signal),
                   toVecOk, sealOk)
        rid == ParseCreateResponse(reply.body)
        post == PostMessage(RequestUrl(c.bridge_url), e.payload)
    IN  IF ~buildOk
        THEN [session |-> NoSession, result |-> "Bridge", sent |-> << >>]
        ELSE IF ~g.ok
        THEN [session |-> NoSession, result |-> g.err, sent |-> << >>]
        ELSE IF ~e.ok
        THEN [session |-> NoSession, result |-> e.err, sent |-> << >>]
        ELSE IF ~reply.sent
        THEN [session |-> NoSession, result |-> "Bridge", sent |-> << post >>]
        ELSE IF rid = ""
        THEN [session |-> NoSession, result |-> "Bridge", sent |-> << post >>]
        ELSE [session |-> [exists |-> TRUE, key |-> g.key,
                           key_bytes |-> g.key_bytes, request_id |-> rid,
                           bridge_url |-> c.bridge_url],
              result |-> "Ok", sent |-> << post >>]

\* What the caller does with the result of Session::new: examples/flow.rs
\* unwraps it and enters its loop.
AfterNew(caller, result) ==
    IF result # "Ok" THEN "panicked"
    ELSE IF caller = "loop" THEN "loop" ELSE "api"

\* A loop that goes round again on Failed.
AfterPoll_retry(caller, r) ==
    IF r.kind = "Panic" THEN "panicked"
    ELSE IF caller = "api" THEN "api"
    ELSE IF r.kind = "Err" THEN "panicked"
    ELSE IF r.status.tag = "Confirmed" THEN "verify"
    ELSE "loop"

\* What the caller does with the result of a poll.  examples/flow.rs unwraps
\* it, goes round its loop on WaitingForConnection and AwaitingConfirmation,
\* exits on Failed and breaks out of the loop on Confirmed; a panic ends any
\* caller.
AfterPoll(caller, r) ==
    IF r.kind = "Panic" THEN "panicked"
    ELSE IF caller = "api" THEN "api"
    ELSE IF r.kind = "Err" THEN "panicked"
    ELSE IF r.status.tag = "Failed" THEN "exited"
    ELSE IF r.status.tag = "Confirmed" THEN "verify"
    ELSE "loop"

(***************************************************************************)
(* verify.rs                                                               *)
(***************************************************************************)

\* The body of a reply of the verification endpoint, as JSON: each field is
\* a string or Absent (attribute may also be null, which reads as None).
ErrorBody(code, detail, attribute) ==
    [json |-> TRUE, code |-> code, detail |-> detail, attribute |-> attribute]

NoErrorBody ==
    [json |-> FALSE, code |-> Absent, detail |-> Absent, attribute |-> Absent]

\* response.json::<ErrorResponse>(): code and detail are required strings,
\* attribute is optional.
ParseErrorResponse(body) ==
    IF body.json /\ body.code # Absent /\ body.detail # Absent
    THEN [ok |-> TRUE, code |-> body.code, detail |-> body.detail,
          attribute |-> IF body.attribute = "null" THEN Absent
                        ELSE body.attribute]
    ELSE [ok |-> FALSE, code |-> "", detail |-> "", attribute |-> Absent]

\* A VerificationRequest that hashes every signal, the empty encoding too.
VerificationRequest_always(proof, app_id, action, signal) ==
    [url |-> << "https", ":", "/", "/", "developer.worldcoin.org", "/",
                "api", "/", "v2", "/", "verify", "/", app_id >>,
     action |-> action,
     proof |-> proof.proof,
     merkle_root |-> proof.merkle_root,
     nullifier_hash |-> proof.nullifier_hash,
     verification_level |-> LevelText(proof.verification_level),
     signal_hash |-> SomeText(HexText(hash_to_field(abi_encode_packed(signal))))]

\* The VerificationRequest verify_proof posts, and where.
VerificationRequest(proof, app_id, action, signal) ==
    LET packed == abi_encode_packed(signal)
    IN  [url |-> << "https", ":", "/", "/", "developer.worldcoin.org", "/",
                    "api", "/", "v2", "/", "verify", "/", app_id >>,
         action |-> action,
         proof |-> proof.proof,
         merkle_root |-> proof.merkle_root,
         nullifier_hash |-> proof.nullifier_hash,
         verification_level |-> LevelText(proof.verification_level),
         signal_hash |-> IF Len(packed) = 0 THEN NoText
                         ELSE SomeText(HexText(hash_to_field(packed)))]

VerifyResult(kind, variant, code, detail, attribute, raw) ==
    [kind |-> kind, variant |-> variant, code |-> code, detail |-> detail,
     attribute |-> attribute, raw |-> raw]

NoVerifyReply == [sent |-> FALSE, status |-> 0, body |-> NoErrorBody]

\* A verify_proof that takes every 2xx status for success.
verify_proof_any2xx(reply) ==
    IF ~reply.sent
    THEN VerifyResult("Err", "Reqwest", "", "", Absent, NoVerifyReply)
    ELSE IF reply.status >= 200 /\ reply.status <= 299
    THEN VerifyResult("Ok", "", "", "", Absent, NoVerifyReply)
    ELSE IF reply.status = 400
    THEN LET e == ParseErrorResponse(reply.body)
         IN  IF e.ok
             THEN VerifyResult("Err", "Verification", e.code, e.detail,
                               e.attribute, NoVerifyReply)
             ELSE VerifyResult("Err", "Reqwest", "", "", Absent, NoVerifyReply)
    ELSE VerifyResult("Err", "InvalidResponse", "", "", Absent, reply)

\* verify_proof after the POST: `reply` is what send() gave.
verify_proof(reply) ==
    IF ~reply.sent
    THEN VerifyResult("Err", "Reqwest", "", "", Absent, NoVerifyReply)
    ELSE IF reply.status = 200
    THEN VerifyResult("Ok", "", "", "", Absent, NoVerifyReply)
    ELSE IF reply.status = 400
    THEN LET e == ParseErrorResponse(reply.body)
         IN  IF e.ok
             THEN VerifyResult("Err", "Verification", e.code, e.detail,
                               e.attribute, NoVerifyReply)
             ELSE VerifyResult("Err", "Reqwest", "", "", Absent, NoVerifyReply)
    ELSE VerifyResult("Err", "InvalidResponse", "", "", Absent, reply)

NoVerifyIn ==
    [proof |-> NoProof, app_id |-> "", action |-> "", signal |-> "",
     reply |-> NoVerifyReply]

NoVerifyOut ==
    [called |-> FALSE,
     request |-> [url |-> << >>, action |-> "", proof |-> "",
                  merkle_root |-> "", nullifier_hash |-> "",
                  verification_level |-> "", signal_hash |-> NoText],
     sent |-> 0,
     result |-> VerifyResult("", "", "", "", Absent, NoVerifyReply)]

\* The proofs, signals and replies verify_proof is tried on.
VerifyProofs ==
    {[proof |-> "0x0d6e", merkle_root |-> "0x1f38", nullifier_hash |-> "0x2a7c",
      verification_level |-> l] : l \in {"Orb", "Device"}}

VerifyStatuses == {200, 201, 204, 400, 401, 500}

VerifyBodies ==
    { ErrorBody("invalid_proof", "The provided proof is invalid.", "proof"),
      ErrorBody("invalid_merkle_root", "The provided Merkle root is invalid.",
                "null"),
      ErrorBody("max_verifications_reached", "Already verified.", Absent),
      ErrorBody("invalid_proof", Absent, Absent),
      NoErrorBody }

VerifyReplies ==
    {NoVerifyReply} \cup [sent : {TRUE}, status : VerifyStatuses, body : VerifyBodies]

\* The signals verify_proof is tried on: two strings, the unit value and a
\* pair.
VerifySignals == {"", "test", "()", "(1, test)"}

VerifyInputs ==
    [proof : VerifyProofs, app_id : {FlowAppId}, action : {FlowAction},
     signal : VerifySignals, reply : VerifyReplies]

\* hash_to_field not called yet.
NoHash == [called |-> FALSE, value |-> << >>]

\* AppId::from_str not called yet.
NoAppId == [called |-> FALSE, ok |-> FALSE, id |-> << >>, err |-> << >>,
            staging |-> FALSE]

\* encrypt_request not called yet.
NoSealIn ==
    [plain |-> NotJson, ivRand |-> RandFailed, keyRand |-> RandFailed,
     openKey |-> << >>]

NoSealOut ==
    [called |-> FALSE, sealed |-> FALSE, key |-> << >>, nonce |-> << >>,
     payload |-> NoPayload, opened |-> FALSE,
     result |-> [ok |-> FALSE, err |-> "", response |-> NoBridgeResponse]]

SessionInit ==
    /\ session = NoSession
    /\ newIn = NoNewIn
    /\ newResult = ""
    /\ sent = {}
    /\ bridge = NoBridge
    /\ connect = << >>
    /\ pollRecv = NoReply
    /\ pollResult = NoResult
    /\ prevStatus = NoStatus
    /\ lastStatus = NoStatus
    /\ pc = "start"
    /\ requests = [op |-> "", n |-> 0]
    /\ streak = 0

\* No call of hash_to_field, AppId::from_str or encrypt_request yet.
HashInit == hashIn = << >> /\ hashOut = NoHash

IdInit == idIn = << >> /\ idOut = NoAppId

SealInit == sealIn = NoSealIn /\ sealOut = NoSealOut

Init ==
    /\ cfg \in Configs
    /\ SessionInit
    /\ urlIn = NoUrl
    /\ urlOut = NoTry
    /\ vIn = NoVerifyIn
    /\ vOut = NoVerifyOut
    /\ HashInit
    /\ IdInit
    /\ SealInit

\* The caller establishes the session.
New ==
    /\ pc = "start"
    /\ \E buildOk \in BOOLEAN, ivRand \in IvRands, keyRand \in KeyRands,
          toVecOk \in BOOLEAN, sealOk \in BOOLEAN, reply \in CreateReplies :
          LET r == Session_new(cfg, buildOk, ivRand, keyRand, toVecOk, sealOk,
                               reply)
          IN  /\ session' = r.session
              /\ newResult' = r.result
              /\ newIn' = [buildOk |-> buildOk, ivRand |-> ivRand,
                            keyRand |-> keyRand, toVecOk |-> toVecOk,
                            sealOk |-> sealOk, reply |-> reply]
              /\ sent' = sent \cup {r.sent[i] : i \in 1..Len(r.sent)}
              /\ requests' = [op |-> "new", n |-> Len(r.sent)]
              /\ bridge' = IF r.session.exists
                           THEN [status |-> "initialized", response |-> NoEnvelope]
                           ELSE bridge
              /\ pc' = AfterNew(cfg.caller, r.result)
    /\ UNCHANGED << cfg, connect, pollRecv, pollResult, prevStatus, lastStatus,
                    streak, pureVars >>

\* The caller asks for the connect URL.
ConnectUrl ==
    /\ session.exists
    /\ pc \in {"loop", "api"}
    /\ connect' = connect_url(session)
    /\ UNCHANGED << cfg, session, newIn, newResult, sent, bridge,
                    pollRecv, pollResult, prevStatus, lastStatus, pc,
                    requests, streak, pureVars >>

\* The World App fetches the request from the bridge.
AppRetrieve ==
    /\ bridge.status = "initialized"
    /\ bridge' = [bridge EXCEPT !.status = "retrieved"]
    /\ UNCHANGED << cfg, session, newIn, newResult, sent,
                    connect, pollRecv, pollResult, prevStatus, lastStatus, pc,
                    requests, streak, pureVars >>

\* The World App puts its response on the bridge.
AppRespond ==
    /\ bridge.status = "retrieved"
    /\ \E env \in Envelopes(session.key) :
          bridge' = [status |-> "completed",
                     response |-> [has |-> TRUE, env |-> env]]
    /\ UNCHANGED << cfg, session, newIn, newResult, sent,
                    connect, pollRecv, pollResult, prevStatus, lastStatus, pc,
                    requests, streak, pureVars >>

\* How far the polls that meet the same waiting status are counted.
MaxStreak == 3

\* The bridge answered with a success status and a request still
\* "initialized" or "retrieved".
StillWaiting(reply) ==
    /\ reply.sent
    /\ is_success(reply.status)
    /\ reply.body.json
    /\ reply.body.status \in {"initialized", "retrieved"}

\* Both replies are such answers, with the same status.
SameWaiting(before, reply) ==
    /\ StillWaiting(before)
    /\ StillWaiting(reply)
    /\ before.body.status = reply.body.status

\* The caller polls once.
Poll ==
    /\ session.exists
    /\ pc \in {"loop", "api"}
    /\ \E fault \in PollFaults :
       \E r \in {poll_for_status(session, BridgeReply(bridge, fault))} :
          LET reply == BridgeReply(bridge, fault)
              q     == poll_requests(session)
          IN  /\ sent' = sent \cup {q[i] : i \in 1..Len(q)}
              /\ requests' = [op |-> "poll", n |-> Len(q)]
              /\ streak' = IF ~StillWaiting(reply) THEN 0
                           ELSE IF SameWaiting(pollRecv, reply) /\ streak < MaxStreak
                           THEN streak + 1
                           ELSE IF SameWaiting(pollRecv, reply) THEN streak
                           ELSE 1
              /\ pollRecv' = reply
              /\ pollResult' = r
              /\ prevStatus' = IF r.kind = "Ok" THEN lastStatus ELSE prevStatus
              /\ lastStatus' = IF r.kind = "Ok" THEN r.status ELSE lastStatus
              /\ pc' = AfterPoll(cfg.caller, r)
    /\ UNCHANGED << cfg, session, newIn, newResult, bridge, connect,
                    pureVars >>

\* The caller converts a Url into a BridgeUrl.
TryFrom ==
    /\ urlOut.kind = ""
    /\ urlOut' = try_from(urlIn)
    /\ UNCHANGED << sessionVars, urlIn, verifyVars, hashVars, idVars, sealVars >>

\* The Urls BridgeUrl::try_from is tried on: http and https URLs always have
\* a host; file and mailto URLs have none.
Urls ==
    { MkUrl(sch, SomeHost(h), port, path, q, f) :
        sch \in {"https", "http"},
        h \in {"localhost", "127.0.0.1", "bridge.worldcoin.org", "example.com"},
        port \in {"", "8080"},
        path \in {<< "/" >>, << "/", "api" >>},
        q \in {NoText, SomeText(<< "x", "=", "1" >>)},
        f \in {NoText, SomeText(<< "top" >>)} }
    \cup
    { MkUrl(sch, NoHost, "", path, q, f) :
        sch \in {"file", "mailto"},
        path \in {<< "/" >>, << "/", "tmp" >>},
        q \in {NoText, SomeText(<< "x", "=", "1" >>)},
        f \in {NoText, SomeText(<< "top" >>)} }

InitUrl ==
    /\ cfg = Config(DefaultBridgeUrl, "Orb", "", "api")
    /\ SessionInit
    /\ urlIn \in Urls
    /\ urlOut = NoTry
    /\ vIn = NoVerifyIn
    /\ vOut = NoVerifyOut
    /\ HashInit
    /\ IdInit
    /\ SealInit

SpecUrl == InitUrl /\ [][TryFrom]_vars

\* The caller verifies a proof.
Verify ==
    /\ ~vOut.called
    /\ vOut' = [called |-> TRUE,
                request |-> VerificationRequest(vIn.proof, vIn.app_id,
                                                vIn.action, vIn.signal),
                sent |-> 1,
                result |-> verify_proof(vIn.reply)]
    /\ UNCHANGED << sessionVars, urlVars, vIn, hashVars, idVars, sealVars >>

InitVerify ==
    /\ cfg = Config(DefaultBridgeUrl, "Orb", "", "api")
    /\ SessionInit
    /\ urlIn = NoUrl
    /\ urlOut = NoTry
    /\ vIn \in VerifyInputs
    /\ vOut = NoVerifyOut
    /\ HashInit
    /\ IdInit
    /\ SealInit

SpecVerify == InitVerify /\ [][Verify]_vars

\* The byte strings hash_to_field is tried on are those of at most
\* MaxHashLen bytes over HashAlphabet, and the inputs of the tests of
\* hashing.rs.
MaxHashLen == 5

HashAlphabet == {0, 116}

HashInputs ==
    UNION {[1..n -> HashAlphabet] : n \in 0..MaxHashLen}
    \cup {<< 116, 101, 115, 116 >>,
          << 104, 101, 108, 108, 111, 32, 119, 111, 114, 108, 100 >>,
          [i \in 1..31 |-> 0] \o << 1, 116, 101, 115, 116 >>}

\* The caller hashes the bytes.
Hash ==
    /\ ~hashOut.called
    /\ hashOut' = [called |-> TRUE, value |-> hash_to_field(hashIn)]
    /\ UNCHANGED << sessionVars, urlVars, verifyVars, hashIn, idVars, sealVars >>

InitHash ==
    /\ cfg = Config(DefaultBridgeUrl, "Orb", "", "api")
    /\ SessionInit
    /\ urlIn = NoUrl
    /\ urlOut = NoTry
    /\ vIn = NoVerifyIn
    /\ vOut = NoVerifyOut
    /\ hashIn \in HashInputs
    /\ hashOut = NoHash
    /\ IdInit
    /\ SealInit

SpecHash == InitHash /\ [][Hash]_vars

\* The plaintexts sealed: the bodies the World App may send, and an object
\* with none of their fields, as the request Session::new seals is.
SealPlains == (ResponsePlains \ {NotJson}) \cup {Plain(Absent, Absent, Absent)}

SealInputs ==
    [plain : SealPlains, ivRand : IvRands, keyRand : KeyRands,
     openKey : {KeyOf(i) : i \in 0..NumRandom}]

\* generate_key, then encrypt_request of the plaintext under the new key.
Seal ==
    /\ ~sealOut.called
    /\ \E toVecOk \in BOOLEAN, sealOk \in BOOLEAN :
          LET g == generate_key(sealIn.ivRand, sealIn.keyRand)
              e == encrypt_request(g.key, g.iv, sealIn.plain, toVecOk, sealOk)
          IN  sealOut' = [sealOut EXCEPT
                            !.called = TRUE,
                            !.sealed = g.ok /\ e.ok,
                            !.key = g.key,
                            !.nonce = g.iv,
                            !.payload = IF g.ok THEN e.payload ELSE NoPayload]
    /\ UNCHANGED << sessionVars, urlVars, verifyVars, hashVars, idVars, sealIn >>

\* decrypt_response of the envelope by a Session holding sealIn.openKey.
Open ==
    /\ sealOut.sealed
    /\ ~sealOut.opened
    /\ sealOut' = [sealOut EXCEPT
                     !.opened = TRUE,
                     !.result = decrypt_response(sealIn.openKey, sealOut.payload)]
    /\ UNCHANGED << sessionVars, urlVars, verifyVars, hashVars, idVars, sealIn >>

InitSeal ==
    /\ cfg = Config(DefaultBridgeUrl, "Orb", "", "api")
    /\ SessionInit
    /\ urlIn = NoUrl
    /\ urlOut = NoTry
    /\ vIn = NoVerifyIn
    /\ vOut = NoVerifyOut
    /\ HashInit
    /\ IdInit
    /\ sealIn \in SealInputs
    /\ sealOut = NoSealOut

SpecSeal == InitSeal /\ [][Seal \/ Open]_vars

\* The strings AppId::from_str is tried on: at most MaxIdChunks pieces, one
\* after the other, so that "app_" and "staging" come whole, split over two
\* pieces, in another case, and at the start or further on.
MaxIdChunks == 3

IdChunks ==
    { << "a", "p", "p", "_" >>, << "a", "p" >>, << "p", "_" >>,
      << "s", "t", "a", "g" >>, << "i", "n", "g" >>, << "1" >>,
      << "A", "p", "p", "_" >>, << "t", "e", "s", "t" >> }

AppIdInputs ==
    {Concat(c) : c \in UNION {[1..n -> IdChunks] : n \in 0..MaxIdChunks}}

\* The caller parses the string, and asks an AppId whether it is staging.
FromStr ==
    /\ ~idOut.called
    /\ LET r == from_str(idIn)
       IN  idOut' = [called |-> TRUE, ok |-> r.ok, id |-> r.id, err |-> r.err,
                     staging |-> IF r.ok THEN is_staging(r.id) ELSE FALSE]
    /\ UNCHANGED << sessionVars, urlVars, verifyVars, hashVars, idIn, sealVars >>

InitAppId ==
    /\ cfg = Config(DefaultBridgeUrl, "Orb", "", "api")
    /\ SessionInit
    /\ urlIn = NoUrl
    /\ urlOut = NoTry
    /\ vIn = NoVerifyIn
    /\ vOut = NoVerifyOut
    /\ HashInit
    /\ idIn \in AppIdInputs
    /\ idOut = NoAppId
    /\ SealInit

SpecAppId == InitAppId /\ [][FromStr]_vars

\* The replies verify_proof meets beside a session: none, a 400 whose body
\* cannot be decoded, and a server error.
CallVerifyInputs ==
    {v \in VerifyInputs :
        /\ v.proof.verification_level = "Orb"
        /\ v.signal = "test"
        /\ \/ ~v.reply.sent
           \/ v.reply.status \in {400, 500} /\ v.reply.body = NoErrorBody}

\* A session over the default bridge, and beside it one call of
\* verify_proof.
InitCalls ==
    /\ cfg = Config(DefaultBridgeUrl, "Orb", "", "api")
    /\ SessionInit
    /\ urlIn = NoUrl
    /\ urlOut = NoTry
    /\ vIn \in CallVerifyInputs
    /\ vOut = NoVerifyOut
    /\ HashInit
    /\ IdInit
    /\ SealInit

Next == New \/ ConnectUrl \/ AppRetrieve \/ AppRespond \/ Poll

Spec == Init /\ [][Next]_vars

SpecCalls == InitCalls /\ [][Next \/ Verify]_vars

(***************************************************************************)
(* The polling loop of examples/flow.rs against a bridge that, once the    *)
(* request is "completed", answers every GET with a success status and the *)
(* request as it holds it.  The loop calls poll_for_status every 500 ms    *)
(* for as long as it has not left: weak fairness on its poll.              *)
(***************************************************************************)

\* A poll; once the request is "completed", one the bridge answers.
PollAnswered ==
    /\ Poll
    /\ bridge.status = "completed" => pollRecv' = BridgeReply(bridge, "none")

InitLive ==
    /\ cfg \in {c \in Configs : c.caller = "loop"}
    /\ SessionInit
    /\ urlIn = NoUrl
    /\ urlOut = NoTry
    /\ vIn = NoVerifyIn
    /\ vOut = NoVerifyOut
    /\ HashInit
    /\ IdInit
    /\ SealInit

NextLive == New \/ ConnectUrl \/ AppRetrieve \/ AppRespond \/ PollAnswered

SpecLive == InitLive /\ [][NextLive]_vars /\ WF_vars(PollAnswered)

(***************************************************************************)
(* The claims                                                              *)
(***************************************************************************)

IsTerminal(st) == st.tag \in {"Confirmed", "Failed"}

IsWaiting(st) == st.tag \in {"WaitingForConnection", "AwaitingConfirmation"}

\* The latest poll received a success transport status and a JSON body.
PollGotBody ==
    /\ pollResult.kind # ""
    /\ pollRecv.sent
    /\ pollRecv.status >= 200
    /\ pollRecv.status <= 299
    /\ pollRecv.body.json

\* The latest poll received a "completed" body whose envelope was sealed
\* from `plain` under the session key.
PollGotPlain(plain) ==
    /\ PollGotBody
    /\ pollRecv.body.status = "completed"
    /\ pollRecv.body.response.has
    /\ pollRecv.body.response.env = GoodEnvelope(session.key, plain)

\* An error-code object and a proof object, among the decrypted bodies.
ErrorCodes ==
    [verification_rejected |-> "VerificationRejected",
     generic_error |-> "GenericError"]

IsErrorObject(plain) ==
    /\ plain.json
    /\ plain.error_code \in DOMAIN ErrorCodes
    /\ plain.proof = Absent

IsProofObject(plain) ==
    /\ plain.json
    /\ plain.error_code = Absent
    /\ plain.proof # Absent
    /\ plain.credential_type \in {"orb", "device"}

\* C1: a poll that receives a success transport status returns what the body
\* says: "initialized" gives WaitingForConnection, "retrieved" gives
\* AwaitingConfirmation, "completed" with a decrypted error-code object gives
\* Failed(that code), "completed" with a decrypted proof object gives
\* Confirmed with proof, merkle_root and nullifier_hash copied and
\* credential_type orb/device as verification_level Orb/Device.
C1_PollMapping ==
    /\ PollGotBody /\ pollRecv.body.status = "initialized"
          => pollResult = [kind |-> "Ok", err |-> "",
                           status |-> [tag |-> "WaitingForConnection",
                                       error |-> "", proof |-> NoProof]]
    /\ PollGotBody /\ pollRecv.body.status = "retrieved"
          => pollResult = [kind |-> "Ok", err |-> "",
                           status |-> [tag |-> "AwaitingConfirmation",
                                       error |-> "", proof |-> NoProof]]
    /\ \A plain \in ResponsePlains :
          PollGotPlain(plain) =>
             /\ IsErrorObject(plain) =>
                   pollResult = [kind |-> "Ok", err |-> "",
                                 status |-> [tag |-> "Failed",
                                             error |-> ErrorCodes[plain.error_code],
                                             proof |-> NoProof]]
             /\ IsProofObject(plain) =>
                   pollResult =
                      [kind |-> "Ok", err |-> "",
                       status |->
                          [tag |-> "Confirmed", error |-> "",
                           proof |->
                              [proof |-> plain.proof,
                               merkle_root |-> plain.merkle_root,
                               nullifier_hash |-> plain.nullifier_hash,
                               verification_level |->
                                  IF plain.credential_type = "orb"
                                  THEN "Orb" ELSE "Device"]]]

\* C1 witness: a poll received a completed device proof and returned
\* Confirmed with verification level Device.
C1_Witness ==
    /\ \E plain \in ResponsePlains :
          PollGotPlain(plain) /\ IsProofObject(plain)
          /\ plain.credential_type = "device"
    /\ pollResult.kind = "Ok"
    /\ pollResult.status.tag = "Confirmed"
    /\ pollResult.status.proof.verification_level = "Device"

\* C2 as stated: once a poll has returned Confirmed or Failed, no later poll
\* of the session returns a different status.
C2_Original == [][IsTerminal(lastStatus) => lastStatus' = lastStatus]_vars

\* C2 as amended: the Session keeps no status, so a poll made after a terminal
\* status returns whatever the bridge then answers; the loop of
\* examples/flow.rs makes no poll after one that returned Confirmed or Failed,
\* so that caller sees no transition out of a terminal status.
C2_LoopStopsAtTerminal ==
    [][cfg.caller = "loop" /\ IsTerminal(lastStatus)
          => /\ lastStatus' = lastStatus
             /\ pollResult' = pollResult
             /\ sent' = sent
             /\ pc' = pc /\ pc \in {"exited", "verify"}]_vars

\* C2 witness: the loop has ended on a Failed status.
C2_Witness ==
    /\ cfg.caller = "loop"
    /\ lastStatus.tag = "Failed"
    /\ pollResult.kind = "Ok"
    /\ pc = "exited"

\* The pairs of consecutive statuses the claim lists.
ListedPairs ==
    { << "WaitingForConnection", "WaitingForConnection" >>,
      << "WaitingForConnection", "AwaitingConfirmation" >>,
      << "WaitingForConnection", "Failed" >>,
      << "AwaitingConfirmation", "AwaitingConfirmation" >>,
      << "AwaitingConfirmation", "Confirmed" >>,
      << "AwaitingConfirmation", "Failed" >> }

\* C3 as stated: two consecutive statuses of which the first is not terminal
\* are one of the six listed pairs.
C3_Original ==
    IsWaiting(prevStatus) => << prevStatus.tag, lastStatus.tag >> \in ListedPairs

\* C3 as amended: with a bridge whose reported status only advances, two
\* consecutive statuses of which the first is not terminal are one of the six
\* listed pairs or WaitingForConnection then Confirmed; never
\* AwaitingConfirmation then WaitingForConnection.
C3_Pairs ==
    IsWaiting(prevStatus) =>
        << prevStatus.tag, lastStatus.tag >>
            \in ListedPairs \cup {<< "WaitingForConnection", "Confirmed" >>}

\* C3 witness: Confirmed was returned right after WaitingForConnection.
C3_Witness ==
    /\ prevStatus.tag = "WaitingForConnection"
    /\ lastStatus.tag = "Confirmed"

\* C4: a poll answered with a non-success transport status returns
\* Ok(Failed(ConnectionFailed)) whatever the body, never an Err; Err(Bridge)
\* is returned only when no response came or the success body is not the
\* poll-response JSON.
C4_NonSuccessIsFailed ==
    pollResult.kind # "" =>
        /\ pollRecv.sent /\ (pollRecv.status < 200 \/ pollRecv.status > 299)
              => pollResult = [kind |-> "Ok", err |-> "",
                               status |-> [tag |-> "Failed",
                                           error |-> "ConnectionFailed",
                                           proof |-> NoProof]]
        /\ pollResult.kind = "Err" /\ pollResult.err = "Bridge"
              => \/ ~pollRecv.sent
                 \/ /\ pollRecv.status >= 200 /\ pollRecv.status <= 299
                    /\ ~pollRecv.body.json

\* C4 witness: a 500 reply whose body held a completed response sealed under
\* the session key was returned as Failed(ConnectionFailed).
C4_Witness ==
    /\ pollRecv.sent
    /\ pollRecv.status = 500
    /\ pollRecv.body.status = "completed"
    /\ pollRecv.body.response.has
    /\ pollRecv.body.response.env.payload.ct.key = session.key
    /\ pollRecv.body.response.env.payload.ct.intact
    /\ pollResult.kind = "Ok"
    /\ pollResult.status.tag = "Failed"
    /\ pollResult.status.error = "ConnectionFailed"

\* The text of the bridge URL's origin: scheme, host and port.
OriginText(u) ==
    << u.scheme, ":", "/", "/", u.host.val >>
    \o (IF u.port = "" THEN << >> ELSE << ":", u.port >>)

\* The base64 text of each key the random source can give, plain and
\* percent-encoded.
KeyB64 == [i \in 1..NumRandom |-> base64_encode(KeyOf(i))]

KeyPct == [i \in 1..NumRandom |-> urlencoding_encode(KeyB64[i])]

\* Whether request `m` shows a key: its base64 text, plain or
\* percent-encoded, in the URL or in the iv, or its bytes in the decoded iv.
Exposes(m) ==
    LET iv == base64_decode(m.body.iv)
    IN  \E i \in 1..NumRandom :
            \/ Occurs(KeyB64[i], m.url)
            \/ Occurs(KeyPct[i], m.url)
            \/ Occurs(KeyB64[i], m.body.iv)
            \/ Occurs(KeyPct[i], m.body.iv)
            \/ (iv.ok /\ Occurs(KeyOf(i), iv.bytes))

\* The request JSON shows no key: its fields are the caller's arguments.
PlainShowsNoKey(plain) ==
    /\ DOMAIN plain = {"app_id", "action", "action_description", "signal",
                       "verification_level", "credential_types"}
    /\ \A i \in 1..NumRandom : ~Occurs(KeyB64[i], plain.signal)

\* C5: no request sent to the bridge holds the key: the POST goes to
\* {bridge}/request with a body of exactly the base64 nonce (iv) and the
\* base64 ciphertext (payload), every GET goes to {bridge}/response/{id} with
\* no body.
C5_KeyNotSent ==
    \A m \in sent :
        /\ ~Exposes(m)
        /\ m.method = "POST" =>
              /\ m.url = OriginText(cfg.bridge_url) \o << "/", "request" >>
              /\ DOMAIN m.body = {"iv", "payload"}
              /\ m.body.iv = base64_encode(newIn.ivRand.bytes)
              /\ Len(newIn.ivRand.bytes) = 12
              /\ m.body.payload.b64
              /\ m.body.payload.ct.intact
              /\ m.body.payload.ct.key = newIn.keyRand.bytes
              /\ m.body.payload.ct.nonce = newIn.ivRand.bytes
              /\ PlainShowsNoKey(m.body.payload.ct.plain)
        /\ m.method = "GET" =>
              /\ m.url = OriginText(cfg.bridge_url)
                            \o << "/", "response", "/", session.request_id >>
              /\ m.body.iv = << >>
              /\ ~m.body.payload.b64
        /\ m.method \in {"POST", "GET"}

\* C5 witness: the POST and a GET have been sent, and connect_url has given
\* out the key.
C5_Witness ==
    /\ \E m \in sent : m.method = "POST"
    /\ \E m \in sent : m.method = "GET"
    /\ session.exists
    /\ Occurs(urlencoding_encode(base64_encode(session.key_bytes)), connect)

\* The texts serde reads as a UUID, among the request_id values of the
\* replies.
UuidTexts ==
    {"3f2504e0-4f89-11d3-9a0c-0305e82c3301",
     "3F2504E0-4F89-11D3-9A0C-0305E82C3301"}

\* Every step of Session::new succeeded.
AllStepsOk ==
    /\ newIn.buildOk
    /\ newIn.ivRand.ok
    /\ newIn.keyRand.ok
    /\ newIn.toVecOk
    /\ newIn.sealOk
    /\ newIn.reply.sent
    /\ newIn.reply.body.json
    /\ newIn.reply.body.request_id \in UuidTexts

C7_NonSuccessFails ==
    /\ newResult # ""
    /\ newIn.reply.sent
    /\ (newIn.reply.status < 200 \/ newIn.reply.status > 299)
    => /\ ~session.exists
       /\ newResult # "Ok"

\* The values of the query parameter `name`.
ParamValues(q, name) ==
    LET hits == SelectSeq(q, LAMBDA pr : pr.name = << name >>)
    IN  [i \in 1..Len(hits) |-> hits[i].value]

\* C8 as stated: connect_url is https://worldcoin.org/verify with t=wld,
\* i=the request id, k=the percent-encoded base64 key, and b exactly when the
\* bridge URL is not the default one; decoding b gives the bridge URL, and i
\* and k stay as they are whatever the bridge URL holds.
C8_ConnectUrl ==
    connect # << >> =>
        LET parts == UrlParts(connect)
            q     == QueryPairs(parts)
        IN  /\ parts.base = << "https", ":", "/", "/", "worldcoin.org", "/",
                               "verify" >>
            /\ ~parts.fragment.has
            /\ ParamValues(q, "t") = << << "wld" >> >>
            /\ ParamValues(q, "i") = << << session.request_id >> >>
            /\ ParamValues(q, "k") = << base64_encode(session.key_bytes) >>
            /\ Occurs(<< "&", "k", "=" >>
                        \o urlencoding_encode(base64_encode(session.key_bytes)),
                      connect)
            /\ ParamValues(q, "b") =
                  IF session.bridge_url = DefaultBridgeUrl THEN << >>
                  ELSE << UrlText(session.bridge_url) >>
            /\ Len(q) = IF session.bridge_url = DefaultBridgeUrl THEN 3 ELSE 4

\* C9 as stated: BridgeUrl::try_from gives a result for every Url, with or
\* without a host: Ok for the hosts localhost and 127.0.0.1, else the error of
\* the first broken rule (https, default port, path "/", no query, no
\* fragment), else Ok; a non-https Url with another host or none is NotHttps.
C9_TryFromTotal ==
    urlOut.kind # "" =>
        /\ urlOut.kind \in {"Ok", "Err"}
        /\ urlOut.url = urlIn
        /\ urlOut.err =
              IF urlIn.host.has /\ urlIn.host.val \in {"localhost", "127.0.0.1"}
              THEN ""
              ELSE IF urlIn.scheme # "https" THEN "NotHttps"
              ELSE IF urlIn.port # "" THEN "NotDefaultPort"
              ELSE IF urlIn.path # << "/" >> THEN "ContainsPath"
              ELSE IF urlIn.query.has THEN "ContainsQuery"
              ELSE IF urlIn.fragment.has THEN "ContainsFragment"
              ELSE ""
        /\ urlOut.kind = "Ok" <=> urlOut.err = ""

\* The reply's body holds the code and detail of an error response.
IsErrorResponse(body) == body.json /\ body.code # Absent /\ body.detail # Absent

\* The attribute an error response's body gives: a string, or none.
BodyAttribute(body) ==
    IF body.attribute \in {Absent, "null"} THEN Absent ELSE body.attribute

\* C10 as stated: status 200 gives Ok, status 400 gives Err(Verification)
\* with the body's code, detail and attribute, every other status gives
\* Err(InvalidResponse) with the response; only 200 gives Ok.
C10_Original ==
    vOut.called /\ vIn.reply.sent =>
        /\ vIn.reply.status = 200 => vOut.result.kind = "Ok"
        /\ vIn.reply.status = 400 =>
              /\ vOut.result.kind = "Err"
              /\ vOut.result.variant = "Verification"
              /\ vOut.result.code = vIn.reply.body.code
              /\ vOut.result.detail = vIn.reply.body.detail
              /\ vOut.result.attribute = BodyAttribute(vIn.reply.body)
        /\ vIn.reply.status \notin {200, 400} =>
              /\ vOut.result.kind = "Err"
              /\ vOut.result.variant = "InvalidResponse"
              /\ vOut.result.raw = vIn.reply
        /\ vOut.result.kind = "Ok" => vIn.reply.status = 200

\* C10 as amended: as stated, but status 400 gives Err(Verification) with the
\* body's code, detail and attribute only when the body is an error response
\* (JSON with a code and a detail); a 400 with any other body gives
\* Err(Reqwest), the decoding error.
C10_StatusMapping ==
    vOut.called /\ vIn.reply.sent =>
        /\ vIn.reply.status = 200 => vOut.result.kind = "Ok"
        /\ vIn.reply.status = 400 /\ IsErrorResponse(vIn.reply.body) =>
              /\ vOut.result.kind = "Err"
              /\ vOut.result.variant = "Verification"
              /\ vOut.result.code = vIn.reply.body.code
              /\ vOut.result.detail = vIn.reply.body.detail
              /\ vOut.result.attribute = BodyAttribute(vIn.reply.body)
        /\ vIn.reply.status = 400 /\ ~IsErrorResponse(vIn.reply.body) =>
              /\ vOut.result.kind = "Err"
              /\ vOut.result.variant = "Reqwest"
        /\ vIn.reply.status \notin {200, 400} =>
              /\ vOut.result.kind = "Err"
              /\ vOut.result.variant = "InvalidResponse"
              /\ vOut.result.raw = vIn.reply
        /\ vOut.result.kind = "Ok" => vIn.reply.status = 200

\* C10 witness: a 400 reply with code, detail and attribute was returned as
\* Err(Verification) holding them.
C10_Witness ==
    /\ vOut.called
    /\ vIn.reply.sent
    /\ vIn.reply.status = 400
    /\ vIn.reply.body.attribute = "proof"
    /\ vOut.result.variant = "Verification"
    /\ vOut.result.code = "invalid_proof"
    /\ vOut.result.attribute = "proof"

\* The text hashing.rs expects of format!("0x{:x}", hash_to_field(b"test")).
TestSignalHex ==
    << "0x", "0", "0", "9", "c", "2", "2", "f", "f", "5", "f", "2", "1",
       "f", "0", "b", "8", "1", "b", "1", "1", "3", "e", "6", "3", "f", "7",
       "d", "b", "6", "d", "a", "9", "4", "f", "e", "d", "e", "f", "1", "1",
       "b", "2", "1", "1", "9", "b", "4", "0", "8", "8", "b", "8", "9", "6",
       "6", "4", "f", "b", "9", "a", "3", "c", "b", "6" >>

\* C11: the body verify_proof sends holds signal_hash exactly when the
\* signal's packed encoding is not empty; it is then "0x" and the hex of
\* hash_to_field of that encoding, the same text Session::new seals as
\* "signal" for the same signal.
C11_SignalHash ==
    vOut.called =>
        LET packed == abi_encode_packed(vIn.signal)
            hash   == vOut.request.signal_hash
            sealed == RequestJson(vIn.app_id, vIn.action, Absent,
                                  vIn.proof.verification_level, vIn.signal)
        IN  /\ hash.has <=> Len(packed) > 0
            /\ hash.has =>
                  /\ hash.val = HexText(hash_to_field(packed))
                  /\ hash.val = sealed.signal
                  /\ Len(hash.val) = 65
                  /\ hash.val[1] = "0x"
                  /\ hash.val[2] = "0" /\ hash.val[3] = "0"
            /\ vIn.signal = "test" => hash.has /\ hash.val = TestSignalHex

\* C11 witness: verify_proof was called with the pair as signal and sent
\* its hash.
C11_Witness ==
    /\ vOut.called
    /\ vIn.signal = "(1, test)"
    /\ vOut.request.signal_hash.has
    /\ SubSeq(vOut.request.signal_hash.val, 1, 9)
          = << "0x", "0", "0", "8", "8", "c", "8", "c", "9" >>

\* The 32 big-endian bytes of the number hashing.rs expects of
\* hash_to_field(b"hello world"),
\* 125606243838566630058575099447702412745558900339761109861010052356172984351.
HelloWorldField ==
    << 0, 71, 23, 50, 133, 168, 215, 52, 30, 94, 151, 47, 198, 119, 40, 99, 132,
       248, 2, 248, 239, 66, 165, 236, 95, 3, 187, 250, 37, 76, 176, 31 >>

\* C12: hash_to_field gives, for every input, the 256-bit digest of the
\* input shifted right by 8 bits: 32 big-endian bytes whose first is 0 (a
\* value below 2^248) and whose other 31 are the first 31 bytes of the
\* digest; the same input always gives the same value.
C12_HashToField ==
    hashOut.called =>
        LET digest == keccak256(hashIn)
        IN  /\ Len(digest) = 32
            /\ Len(hashOut.value) = 32
            /\ hashOut.value \in [1..32 -> 0..255]
            /\ hashOut.value[1] = 0
            /\ \A i \in 2..32 : hashOut.value[i] = digest[i - 1]
            /\ hashIn = << 104, 101, 108, 108, 111, 32, 119, 111, 114, 108, 100 >>
                  => hashOut.value = HelloWorldField
            /\ hashIn = << 116, 101, 115, 116 >>
                  => HexText(hashOut.value) = TestSignalHex

\* C12 witness: hash_to_field has hashed b"hello world", whose digest's top
\* byte is not 0.
C12_Witness ==
    /\ hashOut.called
    /\ hashIn = << 104, 101, 108, 108, 111, 32, 119, 111, 114, 108, 100 >>
    /\ keccak256(hashIn)[1] = 71
    /\ hashOut.value[2] = 71

\* The error_code texts that name an AppError.
AppErrorTexts ==
    {"connection_failed", "verification_rejected", "max_verifications_reached",
     "credential_unavailable", "malformed_request", "invalid_network",
     "inclusion_proof_failed", "inclusion_proof_pending", "unexpected_response",
     "failed_by_host_app", "generic_error"}

\* The JSON object fits BridgeResponse::Error: its error_code names an
\* AppError.
FitsError(plain) == plain.json /\ plain.error_code \in AppErrorTexts

\* The JSON object fits BridgeProof: the four fields, with a credential type.
FitsProof(plain) ==
    /\ plain.json
    /\ plain.proof # Absent
    /\ plain.merkle_root # Absent
    /\ plain.nullifier_hash # Absent
    /\ plain.credential_type \in {"orb", "device"}

\* C13 as stated: the envelope encrypt_request makes under a new key opens
\* with that key, for every JSON plaintext, and not with another key; its iv
\* decodes to the 12-byte nonce used.
C13_Original ==
    sealOut.opened =>
        /\ sealIn.openKey = sealOut.key => sealOut.result.ok
        /\ sealIn.openKey # sealOut.key => ~sealOut.result.ok
        /\ base64_decode(sealOut.payload.iv).bytes = sealOut.nonce

\* C13 as amended: the envelope's iv decodes to the 12-byte nonce used and
\* its ciphertext opens, with the key that sealed it and with no other, to
\* the plaintext sealed; decrypt_response with that key then returns the
\* BridgeResponse the plaintext parses as, or Error::Json when it is neither
\* an error-code object nor a proof object; with another key it returns
\* Error::Encryption.
C13_SealOpen ==
    sealOut.sealed =>
        LET iv  == base64_decode(sealOut.payload.iv)
            ct  == sealOut.payload.payload.ct
            res == sealOut.result
        IN  /\ iv.ok /\ iv.bytes = sealOut.nonce /\ Len(iv.bytes) = 12
            /\ sealOut.nonce = sealIn.ivRand.bytes
            /\ sealOut.key = sealIn.keyRand.bytes
            /\ sealOut.payload.payload.b64
            /\ open_in_place(sealOut.key, iv.bytes, ct)
                  = [ok |-> TRUE, plain |-> sealIn.plain]
            /\ \A i \in 0..NumRandom :
                  KeyOf(i) # sealOut.key => ~open_in_place(KeyOf(i), iv.bytes, ct).ok
            /\ sealOut.opened /\ sealIn.openKey = sealOut.key =>
                  /\ res.ok <=> (FitsError(sealIn.plain) \/ FitsProof(sealIn.plain))
                  /\ ~res.ok => res.err = "Json"
                  /\ FitsError(sealIn.plain) => res.response.variant = "Error"
                  /\ ~FitsError(sealIn.plain) /\ FitsProof(sealIn.plain) =>
                        /\ res.response.variant = "Success"
                        /\ res.response.proof.proof = sealIn.plain.proof
            /\ sealOut.opened /\ sealIn.openKey # sealOut.key =>
                  /\ ~res.ok
                  /\ res.err = "Encryption: Failed to decrypt bridge response"

\* C13 witness: a proof object was sealed and opened with the same key.
C13_Witness ==
    /\ sealOut.opened
    /\ sealIn.openKey = sealOut.key
    /\ sealIn.plain = Plain(Absent, "0x0d6e", "device")
    /\ sealOut.result.ok
    /\ sealOut.result.response.proof.verification_level = "Device"

\* C14: AppId::from_str accepts a string exactly when it starts with "app_";
\* the AppId then holds the string unchanged and is_staging is true exactly
\* when the string contains "staging"; a rejected string comes back unchanged
\* in the error.
C14_AppId ==
    idOut.called =>
        LET starts == /\ Len(idIn) >= 4
                      /\ idIn[1] = "a" /\ idIn[2] = "p"
                      /\ idIn[3] = "p" /\ idIn[4] = "_"
            staging == \E i \in 1..(Len(idIn) - 6) :
                          /\ idIn[i] = "s" /\ idIn[i + 1] = "t"
                          /\ idIn[i + 2] = "a" /\ idIn[i + 3] = "g"
                          /\ idIn[i + 4] = "i" /\ idIn[i + 5] = "n"
                          /\ idIn[i + 6] = "g"
        IN  /\ idOut.ok <=> starts
            /\ idOut.ok => idOut.id = idIn /\ (idOut.staging <=> staging)
            /\ ~idOut.ok => idOut.err = idIn

\* C14 witness: "app_staging", with "staging" split over two pieces, was
\* accepted and is staging.
C14_Witness ==
    /\ idOut.called
    /\ idIn = << "a", "p", "p", "_", "s", "t", "a", "g", "i", "n", "g" >>
    /\ idOut.ok
    /\ idOut.staging

\* C15 as stated: when the decrypted body of a "completed" response has an
\* error_code field, the poll never returns Confirmed, whatever else the
\* body carries: it returns Failed or an error.
C15_ErrorFirst ==
    \A plain \in ResponsePlains :
        PollGotPlain(plain) /\ plain.json /\ plain.error_code # Absent =>
            /\ pollResult.kind \in {"Ok", "Err"}
            /\ pollResult.kind = "Ok" => pollResult.status.tag = "Failed"

\* C16: a poll that receives a success status and a body with a status other
\* than "initialized", "retrieved" and "completed", or with "completed" and
\* no response envelope, ends in a panic: it returns no Status and no error.
C16_ProtocolViolation ==
    /\ PollGotBody
    /\ \/ pollRecv.body.status \notin {"initialized", "retrieved", "completed"}
       \/ pollRecv.body.status = "completed" /\ ~pollRecv.body.response.has
    => /\ pollResult.kind = "Panic"
       /\ pollResult.status = NoStatus
       /\ pc = "panicked"

\* C16 witness: a poll received "completed" without a response and panicked.
C16_Witness ==
    /\ PollGotBody
    /\ pollRecv.body.status = "completed"
    /\ ~pollRecv.body.response.has
    /\ pollResult.kind = "Panic"

\* What is wrong with an envelope for a Session holding `key`, in the order
\* decrypt_response meets it: "" when nothing is.
EnvelopeFault(key, env) ==
    LET iv == base64_decode(env.iv)
        ct == env.payload.ct
    IN  IF ~iv.ok THEN "Base64"
        ELSE IF Len(iv.bytes) # 12 THEN "Encryption: Invalid IV"
        ELSE IF ~env.payload.b64 THEN "Base64"
        ELSE IF ct.key # key \/ ct.nonce # iv.bytes \/ ~ct.intact
        THEN "Encryption: Failed to decrypt bridge response"
        ELSE IF ~FitsError(ct.plain) /\ ~FitsProof(ct.plain) THEN "Json"
        ELSE ""

\* C17: when the envelope of a "completed" response cannot be opened or
\* read, the poll returns an Err and no Status: Error::Base64 for malformed
\* base64 in iv or payload, Error::Encryption for an iv that is not 12 bytes
\* and for a ciphertext that was changed or sealed under another key,
\* Error::Json for a plaintext that is neither an error-code object nor a
\* proof object (the first of these that decrypt_response meets).
C17_EnvelopeErrors ==
    /\ PollGotBody
    /\ pollRecv.body.status = "completed"
    /\ pollRecv.body.response.has
    => LET fault == EnvelopeFault(session.key_bytes, pollRecv.body.response.env)
       IN  /\ fault # "" =>
                 pollResult = [kind |-> "Err", status |-> NoStatus, err |-> fault]
           /\ fault = "" => pollResult.kind = "Ok"
           /\ pollResult.kind = "Err" =>
                 /\ pollResult.err \in
                       {"Base64", "Encryption: Invalid IV", "Json",
                        "Encryption: Failed to decrypt bridge response"}

\* C17 witness: a poll received an envelope sealed under another session's
\* key and returned Error::Encryption.
C17_Witness ==
    /\ PollGotBody
    /\ pollRecv.body.status = "completed"
    /\ pollRecv.body.response.has
    /\ pollRecv.body.response.env.payload.ct.key = OtherKey
    /\ pollResult.kind = "Err"
    /\ pollResult.err = "Encryption: Failed to decrypt bridge response"

\* The steps of Session::new that come before its POST succeeded.
StepsBeforePostOk ==
    /\ newIn.buildOk
    /\ newIn.ivRand.ok
    /\ newIn.keyRand.ok
    /\ newIn.toVecOk
    /\ newIn.sealOk

\* C18: each call of Session::new, poll_for_status and verify_proof sends at
\* most one request, and exactly one when the steps before the sending
\* succeeded; whatever the reply (none, a non-success status, a body that
\* cannot be read), the call returns without sending another.
C18_OneRequestPerCall ==
    /\ requests.n <= 1
    /\ requests.op = "new" => (requests.n = 1 <=> StepsBeforePostOk)
    /\ requests.op = "poll" => requests.n = 1
    /\ vOut.sent <= 1
    /\ vOut.called => vOut.sent = 1
    /\ Cardinality({m \in sent : m.method = "POST"}) <= 1
    /\ newResult # "" =>
          (Cardinality({m \in sent : m.method = "POST"}) = 1 <=> StepsBeforePostOk)

\* C18 witness: Session::new has made a Session, a poll got a non-success
\* status and verify_proof got a 500; each call had sent one request.
C18_Witness ==
    /\ newIn.reply.sent
    /\ session.exists
    /\ requests = [op |-> "poll", n |-> 1]
    /\ pollRecv.sent /\ pollRecv.status = 500
    /\ vOut.called /\ vIn.reply.sent /\ vIn.reply.status = 500
    /\ vOut.sent = 1

\* C19: there is no timeout and no count of polls: as long as the bridge
\* answers with a success status and "initialized" (or "retrieved"), every
\* poll, however many came before it, returns WaitingForConnection (or
\* AwaitingConfirmation).
C19_NoPollLimit ==
    streak >= 1 =>
        /\ pollResult.kind = "Ok"
        /\ pollResult.err = ""
        /\ pollRecv.body.status = "initialized"
              => pollResult.status.tag = "WaitingForConnection"
        /\ pollRecv.body.status = "retrieved"
              => pollResult.status.tag = "AwaitingConfirmation"
        /\ lastStatus = pollResult.status
        /\ streak >= 2 => prevStatus = lastStatus
        /\ pc \in {"loop", "api"}

\* C19 witness: MaxStreak polls in a row met "retrieved" and the latest
\* returned AwaitingConfirmation.
C19_Witness ==
    /\ streak = MaxStreak
    /\ pollRecv.body.status = "retrieved"
    /\ pollResult.kind = "Ok"
    /\ pollResult.status.tag = "AwaitingConfirmation"
    /\ prevStatus.tag = "AwaitingConfirmation"

\* C20 as stated: the verification level of a Confirmed proof is one of the
\* credential types the session sent when it was established; a session
\* that asked for Orb never returns Confirmed with Device.
C20_LevelSatisfied ==
    pollResult.kind = "Ok" /\ pollResult.status.tag = "Confirmed" =>
        /\ \A m \in sent :
              m.method = "POST" =>
                 LET types == m.body.payload.ct.plain.credential_types
                 IN  \E i \in 1..Len(types) :
                        types[i] = pollResult.status.proof.verification_level
        /\ cfg.level = "Orb" =>
              pollResult.status.proof.verification_level # "Device"

\* The identifier the bridge returned to the establishing POST, as a Uuid
\* is written: lowercase, with hyphens.
ReturnedId ==
    IF newIn.reply.body.request_id \in UuidTexts
    THEN "3f2504e0-4f89-11d3-9a0c-0305e82c3301"
    ELSE ""

\* The Session, its requests and its connect URL hold one key, one request
\* identifier and one bridge URL: those of its establishment.
SessionIsOne ==
    session.exists =>
        /\ session.key = newIn.keyRand.bytes
        /\ session.key_bytes = newIn.keyRand.bytes
        /\ session.request_id = ReturnedId
        /\ ReturnedId # ""
        /\ session.bridge_url = cfg.bridge_url
        /\ \A m \in sent :
              /\ m.method = "POST" =>
                    /\ m.body.payload.ct.key = newIn.keyRand.bytes
                    /\ m.url = OriginText(cfg.bridge_url) \o << "/", "request" >>
              /\ m.method = "GET" =>
                    m.url = OriginText(cfg.bridge_url)
                               \o << "/", "response", "/", ReturnedId >>
        /\ connect # << >> =>
              LET q == QueryPairs(UrlParts(connect))
              IN  /\ ParamValues(q, "i")[1] = << ReturnedId >>
                  /\ ParamValues(q, "k")[1] = base64_encode(newIn.keyRand.bytes)
        /\ /\ PollGotBody
           /\ pollRecv.body.status = "completed"
           /\ pollRecv.body.response.has
           /\ pollResult.kind = "Ok"
           => pollRecv.body.response.env.payload.ct.key = newIn.keyRand.bytes

\* C21: for every established Session, after any connect_url and
\* poll_for_status calls, the key in connect_url, the key that sealed the
\* establishing request and the key that opens poll responses are the same
\* key; the identifier in connect_url and in every GET is the one the bridge
\* returned to the POST; the bridge URL polled is the one posted to; and the
\* Session does not change once established.
C21_SessionImmutable ==
    /\ []SessionIsOne
    /\ [][session.exists => session' = session]_vars

\* C21 witness: a Session over the custom bridge has given its connect URL
\* and a poll has opened a response to Confirmed.
C21_Witness ==
    /\ session.exists
    /\ cfg.bridge_url = CustomBridgeUrl
    /\ connect # << >>
    /\ \E m \in sent : m.method = "GET"
    /\ pollResult.kind = "Ok"
    /\ pollResult.status.tag = "Confirmed"

\* The bridge holds a "completed" request whose envelope opens under the
\* session key.
CompletedSealed ==
    /\ session.exists
    /\ bridge.status = "completed"
    /\ bridge.response.has
    /\ EnvelopeFault(session.key, bridge.response.env) \in {"", "Json"}

\* The plaintext of that envelope is a bridge response: an error with a
\* known error_code, or a proof.
CompletedResponse ==
    /\ CompletedSealed
    /\ EnvelopeFault(session.key, bridge.response.env) = ""

\* A poll returned Confirmed or Failed and the loop has been left for it.
LoopEnded ==
    /\ pollResult.kind = "Ok"
    /\ IsTerminal(pollResult.status)
    /\ pc \in {"verify", "exited"}

\* C22 as stated: once the bridge holds a "completed" request with an
\* envelope validly sealed under the session key and answers with success,
\* a caller still polling eventually gets Confirmed or Failed from a poll
\* and its loop ends.
C22_Original == (CompletedSealed /\ pc = "loop") ~> LoopEnded

\* C22: once the bridge holds a "completed" request with an envelope
\* validly sealed under the session key whose plaintext is a bridge
\* response, and answers with success, a caller still polling eventually
\* gets Confirmed or Failed from a poll and its loop ends.
C22_PollingEnds == (CompletedResponse /\ pc = "loop") ~> LoopEnded

\* C22 witness: the loop has polled a "completed" request whose envelope
\* holds an error response, got Failed and exited.
C22_Witness ==
    /\ CompletedResponse
    /\ cfg.caller = "loop"
    /\ pollRecv = BridgeReply(bridge, "none")
    /\ pollResult.kind = "Ok"
    /\ pollResult.status.tag = "Failed"
    /\ pc = "exited"

====
